---- MODULE Spec2Model ----
(***************************************************************************)
(* koreaderToHardcover: the progress reconciliation of                     *)
(* HardcoverClient.update_progress, the batch loops that call it           *)
(* (SyncEngine.sync_progress and the CLI sync command) and the local       *)
(* books table they mark.                                                  *)
(*                                                                         *)
(* Every remote request of update_progress is one action: the request, its *)
(* outcome (answered, failed, or - for a mutation - applied remotely with  *)
(* the answer lost) and the local computation up to the next request.      *)
(* Python None is the integer None; every id, page count, second count,    *)
(* timestamp and date of the model is >= 0.  Percentages are exact         *)
(* rationals (num/den), the float arithmetic of the source is not          *)
(* reproduced bit by bit.                                                  *)
(***************************************************************************)
EXTENDS Integers, Sequences, FiniteSets, TLC

None == -1

\* ------------------------------------------------------------------ bounds
\* number of update_progress calls (direct scenario) or sync runs/ingests
MaxRuns == 2
\* number of imports between the sync runs of the engine
MaxIngests == 1
\* timestamps are integers, TicksPerDay of them per calendar day
TicksPerDay == 2

\* ----------------------------------------------------------- small helpers
Abs(x) == IF x < 0 THEN -x ELSE x

\* datetime.strftime("%Y-%m-%d"): a timestamp keeps its calendar day only
strftime(ts) == ts \div TicksPerDay

\* status_id = 2 if status == "reading" else 3
StatusReading == 2
StatusFinished == 3
StatusIdFor(status) == IF status = "reading" THEN StatusReading ELSE StatusFinished

\* mutant: the product is rounded to the nearest page
TargetPage_Rounded(total_pages, percentage) ==
    IF total_pages # None /\ total_pages > 0
    THEN (2 * total_pages * percentage.num + percentage.den * 100)
            \div (2 * percentage.den * 100)
    ELSE 0

\* int(total_pages * percentage / 100), percentage = num/den >= 0
TargetPage(total_pages, percentage) ==
    IF total_pages # None /\ total_pages > 0
    THEN (total_pages * percentage.num) \div (percentage.den * 100)
    ELSE 0

\* Python truthiness of an optional integer: None and 0 are falsy
Truthy(x) == x # None /\ x # 0

\* ------------------------------------------------------------------ state
VARIABLES
    books,   \* local DuckDB tables books JOIN book_mappings: md5 -> row
    remote,  \* the tracking service: remote book -> page counts, user-books
    run,     \* frame of the caller (direct caller, sync_progress, CLI sync)
    call,    \* frame of HardcoverClient.update_progress
    log,     \* requests issued by the current update_progress call
    last     \* per remote book: arguments and result of the latest call

vars == <<books, remote, run, call, log, last>>

\* -------------------------------------------------------- remote service
\* mutant: the latest read of the user-book is never found
LatestReadId_NeverFound(ub) == None

\* user_book_reads(order_by: {id: desc}, limit: 1): read ids are the
\* positions in the sequence, the latest read is the last one
LatestReadId(ub) == IF Len(ub.reads) = 0 THEN None ELSE Len(ub.reads)

\* a read record as the service creates it (insert_user_book_read with an
\* empty object, or auto-provisioned by insert_user_book)
EmptyRead ==
    [progress_pages |-> None, progress_seconds |-> None,
     started_at |-> None, finished_at |-> None]

\* insert_user_book(object: {book_id, status_id, edition_id}); the service
\* may provision a first read record as a side effect (auto)
RemoteCreateUserBook(r, status_id, e_id, auto) ==
    [r EXCEPT !.ubs = Append(@,
        [status_id |-> status_id, edition_id |-> e_id,
         reads |-> IF auto THEN <<EmptyRead>> ELSE << >>])]

\* insert_user_book_read(user_book_id: $ub_id, user_book_read: {})
RemoteCreateRead(r, ub_id) ==
    [r EXCEPT !.ubs[ub_id].reads = Append(@, EmptyRead)]

\* update_user_book_read(id, object: {progress_pages, progress_seconds,
\* started_at, finished_at}): the four fields take the values sent
RemoteUpdateRead(r, ub_id, ubr_id, payload) ==
    [r EXCEPT !.ubs[ub_id].reads[ubr_id] =
        [progress_pages |-> payload.pages,
         progress_seconds |-> payload.seconds,
         started_at |-> payload.started_at,
         finished_at |-> payload.finished_at]]

\* update_user_book(id, object: {status_id, edition_id})
RemoteUpdateUserBook(r, ub_id, status_id, e_id) ==
    [r EXCEPT !.ubs[ub_id].status_id = status_id,
              !.ubs[ub_id].edition_id = e_id]

\* --------------------------------------------------------- update_progress
Mutations == {"CreateUserBook", "CreateUserBookRead", "UpdateUBR", "UpdateUB"}

IdleCall ==
    [pc |-> "idle", ret |-> "none", err |-> FALSE, args |-> None,
     status_id |-> None, e_id |-> None, total_pages |-> None,
     user_book |-> None, ubr_list |-> None, new_ub_reads |-> None,
     target_page |-> None,
     current_status |-> None, current_edition |-> None,
     current_page |-> None, current_seconds |-> None,
     current_start |-> None, current_finish |-> None,
     ub_id |-> None, ubr_id |-> None]

\* mutant: the edition's page count is never asked for
EnterUpdateProgress_NoEditionQuery(args) ==
    IF ~args.hc_numeric
    THEN [IdleCall EXCEPT !.pc = "done", !.ret = "raised", !.args = args]
    ELSE [IdleCall EXCEPT
            !.args = args,
            !.status_id = StatusIdFor(args.status),
            !.e_id = args.edition_id,
            !.pc = "GetBookPages"]

\* lines 252-256: the conversions before the try block.  int(book_id) of a
\* non-numeric id raises ValueError out of update_progress.
EnterUpdateProgress(args) ==
    IF ~args.hc_numeric
    THEN [IdleCall EXCEPT !.pc = "done", !.ret = "raised", !.args = args]
    ELSE [IdleCall EXCEPT
            !.args = args,
            !.status_id = StatusIdFor(args.status),
            !.e_id = args.edition_id,
            !.pc = IF Truthy(args.edition_id)
                   THEN "GetEditionPages" ELSE "GetBookPages"]

\* mutant: the exception is swallowed and the call goes on
Failed_Swallowed(c) == [c EXCEPT !.err = TRUE]

\* lines 35-38 and 450-452: _execute_query raises, update_progress catches
\* the exception and returns False
Failed(c) == [c EXCEPT !.pc = "done", !.ret = "false", !.err = TRUE]

Issue(op, variables) == log' = Append(log, [op |-> op, variables |-> variables])

\* lines 259-263: query GetEditionPages
GetEditionPages ==
    /\ call.pc = "GetEditionPages"
    /\ Issue("GetEditionPages", [id |-> call.e_id])
    /\ \E outcome \in {"ok", "fail"} :
        call' = IF outcome = "fail" THEN Failed(call)
                ELSE LET tp == remote[call.args.book].edition_pages
                     IN [call EXCEPT !.total_pages = tp,
                            !.pc = IF ~Truthy(tp) THEN "GetBookPages"
                                   ELSE "GetUserBookInfo"]
    /\ UNCHANGED <<books, remote, run, last>>

\* lines 265-271: query GetBookPages
GetBookPages ==
    /\ call.pc = "GetBookPages"
    /\ Issue("GetBookPages", [id |-> call.args.book])
    /\ \E outcome \in {"ok", "fail"} :
        call' = IF outcome = "fail" THEN Failed(call)
                ELSE [call EXCEPT
                        !.total_pages = remote[call.args.book].book_pages,
                        !.pc = "GetUserBookInfo"]
    /\ UNCHANGED <<books, remote, run, last>>

\* mutant: force does not prevent the skip
ShouldSkip_IgnoresForce(c) ==
    /\ c.user_book # None
    /\ c.current_status = c.status_id
    /\ (c.e_id = None \/ c.current_edition = c.e_id)
    /\ c.current_page # None /\ Abs(c.current_page - c.target_page) < 2
    /\ c.current_seconds # None /\ Abs(c.current_seconds - c.args.seconds) < 60
    /\ c.current_start = (IF c.args.start_date # None
                          THEN strftime(c.args.start_date) ELSE None)
    /\ (c.args.status = "finished" =>
          c.current_finish = (IF c.args.last_read_date # None
                              THEN strftime(c.args.last_read_date) ELSE None))

\* mutant: the remote edition is never compared
ShouldSkip_IgnoresEdition(c) ==
    /\ ~c.args.force
    /\ c.user_book # None
    /\ c.current_status = c.status_id
    /\ c.current_page # None /\ Abs(c.current_page - c.target_page) < 2
    /\ c.current_seconds # None /\ Abs(c.current_seconds - c.args.seconds) < 60
    /\ c.current_start = (IF c.args.start_date # None
                          THEN strftime(c.args.start_date) ELSE None)
    /\ (c.args.status = "finished" =>
          c.current_finish = (IF c.args.last_read_date # None
                              THEN strftime(c.args.last_read_date) ELSE None))

\* mutant: a missing remote page or time counts as 0
ShouldSkip_NullsAsZero(c) ==
    /\ ~c.args.force
    /\ c.user_book # None
    /\ c.current_status = c.status_id
    /\ (c.e_id = None \/ c.current_edition = c.e_id)
    /\ Abs((IF c.current_page = None THEN 0 ELSE c.current_page)
           - c.target_page) < 2
    /\ Abs((IF c.current_seconds = None THEN 0 ELSE c.current_seconds)
           - c.args.seconds) < 60
    /\ c.current_start = (IF c.args.start_date # None
                          THEN strftime(c.args.start_date) ELSE None)
    /\ (c.args.status = "finished" =>
          c.current_finish = (IF c.args.last_read_date # None
                              THEN strftime(c.args.last_read_date) ELSE None))

\* mutant: the start dates are not compared
ShouldSkip_NoStartCheck(c) ==
    /\ ~c.args.force
    /\ c.user_book # None
    /\ c.current_status = c.status_id
    /\ (c.e_id = None \/ c.current_edition = c.e_id)
    /\ c.current_page # None /\ Abs(c.current_page - c.target_page) < 2
    /\ c.current_seconds # None /\ Abs(c.current_seconds - c.args.seconds) < 60
    /\ (c.args.status = "finished" =>
          c.current_finish = (IF c.args.last_read_date # None
                              THEN strftime(c.args.last_read_date) ELSE None))

\* mutant: the page tolerance is one page too wide
ShouldSkip_WidePages(c) ==
    /\ ~c.args.force
    /\ c.user_book # None
    /\ c.current_status = c.status_id
    /\ (c.e_id = None \/ c.current_edition = c.e_id)
    /\ c.current_page # None /\ Abs(c.current_page - c.target_page) <= 2
    /\ c.current_seconds # None /\ Abs(c.current_seconds - c.args.seconds) < 60
    /\ c.current_start = (IF c.args.start_date # None
                          THEN strftime(c.args.start_date) ELSE None)
    /\ (c.args.status = "finished" =>
          c.current_finish = (IF c.args.last_read_date # None
                              THEN strftime(c.args.last_read_date) ELSE None))

\* lines 319-349: the skip test, on the locals read from the snapshot
ShouldSkip(c) ==
    /\ ~c.args.force
    /\ c.user_book # None
    /\ c.current_status = c.status_id
    /\ (c.e_id = None \/ c.current_edition = c.e_id)
    /\ LET page_match == c.current_page # None
                         /\ Abs(c.current_page - c.target_page) < 2
           time_match == c.current_seconds # None
                         /\ Abs(c.current_seconds - c.args.seconds) < 60
           target_start == IF c.args.start_date # None
                           THEN strftime(c.args.start_date) ELSE None
           target_finish == IF c.args.status = "finished"
                               /\ c.args.last_read_date # None
                            THEN strftime(c.args.last_read_date) ELSE None
           start_match == c.current_start = target_start
           finish_match == IF c.args.status = "finished"
                           THEN c.current_finish = target_finish ELSE TRUE
       IN page_match /\ time_match /\ start_match /\ finish_match

\* lines 294-317: the locals taken from the GetUserBookInfo answer
Snapshot(c, r) ==
    LET has_ub == Len(r.ubs) > 0
        ub == r.ubs[1]
        has_read == has_ub /\ Len(ub.reads) > 0
        rd == ub.reads[Len(ub.reads)]
    IN [c EXCEPT
          !.user_book = IF has_ub THEN 1 ELSE None,
          !.ubr_list = IF has_read THEN LatestReadId(ub) ELSE None,
          !.target_page = TargetPage(c.total_pages, c.args.percentage),
          !.current_status = IF has_ub THEN ub.status_id ELSE None,
          !.current_edition = IF has_ub THEN ub.edition_id ELSE None,
          !.current_page = IF has_read THEN rd.progress_pages ELSE None,
          !.current_seconds = IF has_read THEN rd.progress_seconds ELSE None,
          !.current_start = IF has_read THEN rd.started_at ELSE None,
          !.current_finish = IF has_read THEN rd.finished_at ELSE None]

\* mutant: a user-book without a read record goes straight to UpdateUBR
AfterSnapshot_NoReadCreated(c) ==
    IF ShouldSkip(c) THEN [c EXCEPT !.pc = "done", !.ret = "true"]
    ELSE IF c.user_book = None THEN [c EXCEPT !.pc = "CreateUserBook"]
    ELSE [c EXCEPT !.ub_id = c.user_book, !.ubr_id = c.ubr_list,
                   !.pc = "UpdateUBR"]

\* lines 351-400 for an existing user-book: ub_id, ubr_id and the next step
AfterSnapshot(c) ==
    IF ShouldSkip(c) THEN [c EXCEPT !.pc = "done", !.ret = "true"]
    ELSE IF c.user_book = None THEN [c EXCEPT !.pc = "CreateUserBook"]
    ELSE [c EXCEPT !.ub_id = c.user_book, !.ubr_id = c.ubr_list,
             !.pc = IF c.ubr_list = None THEN "CreateUserBookRead"
                    ELSE "UpdateUBR"]

\* lines 273-349: query GetUserBookInfo, the skip decision
GetUserBookInfo ==
    /\ call.pc = "GetUserBookInfo"
    /\ Issue("GetUserBookInfo", [book_id |-> call.args.book])
    /\ \E outcome \in {"ok", "fail"} :
        call' = IF outcome = "fail" THEN Failed(call)
                ELSE AfterSnapshot(Snapshot(call, remote[call.args.book]))
    /\ UNCHANGED <<books, remote, run, last>>

\* outcomes of a mutation request: answered; failed without effect; applied
\* by the service with the answer lost (timeout after the commit)
MutationOutcomes == {"ok", "fail", "lost"}

\* lines 351-364: mutation CreateUserBook
CreateUserBook ==
    /\ call.pc = "CreateUserBook"
    /\ Issue("CreateUserBook",
             [book_id |-> call.args.book, status_id |-> call.status_id,
              edition_id |-> call.e_id])
    /\ \E outcome \in MutationOutcomes, auto \in BOOLEAN :
        LET b == call.args.book
            r == RemoteCreateUserBook(remote[b], call.status_id, call.e_id, auto)
        IN /\ remote' = IF outcome = "fail" THEN remote
                        ELSE [remote EXCEPT ![b] = r]
           /\ call' = IF outcome # "ok" THEN Failed(call)
                      ELSE [call EXCEPT !.ub_id = Len(r.ubs),
                                        !.pc = "GetNewUserBook"]
    /\ UNCHANGED <<books, run, last>>

\* mutant: the status and edition just created are not taken as current
AfterNewUserBook_StaleCurrent(c, id) ==
    [c EXCEPT !.new_ub_reads = id, !.ubr_id = id,
              !.pc = IF id = None THEN "CreateUserBookRead" ELSE "UpdateUBR"]

\* lines 377-384: ubr_id from the re-check; the status and edition just
\* created count as current
AfterNewUserBook(c, id) ==
    [c EXCEPT !.new_ub_reads = id, !.ubr_id = id,
              !.current_status = c.status_id,
              !.current_edition = c.e_id,
              !.pc = IF id = None THEN "CreateUserBookRead" ELSE "UpdateUBR"]

\* lines 366-384: query GetNewUserBook, the re-check for an auto-created read
GetNewUserBook ==
    /\ call.pc = "GetNewUserBook"
    /\ Issue("GetNewUserBook", [id |-> call.ub_id])
    /\ \E outcome \in {"ok", "fail"} :
        call' = IF outcome = "fail" THEN Failed(call)
                ELSE AfterNewUserBook(call,
                        LatestReadId(remote[call.args.book].ubs[call.ub_id]))
    /\ UNCHANGED <<books, remote, run, last>>

\* lines 390-400: mutation CreateUserBookRead
CreateUserBookRead ==
    /\ call.pc = "CreateUserBookRead"
    /\ Issue("CreateUserBookRead", [ub_id |-> call.ub_id])
    /\ \E outcome \in MutationOutcomes :
        LET b == call.args.book
            r == RemoteCreateRead(remote[b], call.ub_id)
        IN /\ remote' = IF outcome = "fail" THEN remote
                        ELSE [remote EXCEPT ![b] = r]
           /\ call' = IF outcome # "ok" THEN Failed(call)
                      ELSE [call EXCEPT
                              !.ubr_id = Len(r.ubs[call.ub_id].reads),
                              !.pc = "UpdateUBR"]
    /\ UNCHANGED <<books, run, last>>

\* mutant: the target page is sent even when no page total was resolved
UpdateUBRPayload_AlwaysTarget(c) ==
    [ubr_id |-> c.ubr_id,
     pages |-> c.target_page,
     seconds |-> c.args.seconds,
     started_at |-> IF c.args.start_date # None
                    THEN strftime(c.args.start_date) ELSE c.current_start,
     finished_at |-> IF c.args.status = "finished" /\ c.args.last_read_date # None
                     THEN strftime(c.args.last_read_date) ELSE None]

\* lines 416-433: the variables of mutation UpdateUBR
UpdateUBRPayload(c) ==
    [ubr_id |-> c.ubr_id,
     pages |-> IF Truthy(c.total_pages) THEN c.target_page ELSE c.current_page,
     seconds |-> c.args.seconds,
     started_at |-> IF c.args.start_date # None
                    THEN strftime(c.args.start_date) ELSE c.current_start,
     finished_at |-> IF c.args.status = "finished" /\ c.args.last_read_date # None
                     THEN strftime(c.args.last_read_date) ELSE None]

\* mutant: only a change of status leads to UpdateUB
NeedsUpdateUB_StatusOnly(c) == c.current_status # c.status_id

\* line 436: if current_status != status_id or current_edition != e_id
NeedsUpdateUB(c) ==
    c.current_status # c.status_id \/ c.current_edition # c.e_id

\* lines 402-433: mutation UpdateUBR
UpdateUBR ==
    /\ call.pc = "UpdateUBR"
    /\ Issue("UpdateUBR", UpdateUBRPayload(call))
    /\ \E outcome \in MutationOutcomes :
        LET b == call.args.book
        IN /\ remote' = IF outcome = "fail" THEN remote
                        ELSE [remote EXCEPT ![b] =
                                RemoteUpdateRead(@, call.ub_id, call.ubr_id,
                                                 UpdateUBRPayload(call))]
           /\ call' = IF outcome # "ok" THEN Failed(call)
                      ELSE IF NeedsUpdateUB(call)
                           THEN [call EXCEPT !.pc = "UpdateUB"]
                           ELSE [call EXCEPT !.pc = "done", !.ret = "true"]
    /\ UNCHANGED <<books, run, last>>

\* lines 435-449: mutation UpdateUB, return True
UpdateUB ==
    /\ call.pc = "UpdateUB"
    /\ Issue("UpdateUB",
             [ub_id |-> call.ub_id, status_id |-> call.status_id,
              edition_id |-> call.e_id])
    /\ \E outcome \in MutationOutcomes :
        LET b == call.args.book
        IN /\ remote' = IF outcome = "fail" THEN remote
                        ELSE [remote EXCEPT ![b] =
                                RemoteUpdateUserBook(@, call.ub_id,
                                                     call.status_id, call.e_id)]
           /\ call' = IF outcome # "ok" THEN Failed(call)
                      ELSE [call EXCEPT !.pc = "done", !.ret = "true"]
    /\ UNCHANGED <<books, run, last>>

\* ------------------------------------------------------------ local tables
\* mutant: the status CASE has no guard on the page count
Classify_NoPagesGuard(read_pg, total_pg) ==
    IF total_pg # None /\ read_pg # None
       /\ ((total_pg > 0 /\ read_pg * 100 >= 98 * total_pg)
           \/ total_pg - read_pg <= 15)
    THEN "finished" ELSE "reading"

\* import_books: status = finished iff pages > 0 and (read/pages >= 0.98 or
\* pages - read <= 15); a NULL page count makes the CASE fall to 'reading'
Classify(read_pg, total_pg) ==
    IF total_pg # None /\ read_pg # None /\ total_pg > 0
       /\ (read_pg * 100 >= 98 * total_pg \/ total_pg - read_pg <= 15)
    THEN "finished" ELSE "reading"

\* percentage = (read_pg / total_pg * 100) if total_pg > 0 else 0
Percentage(read_pg, total_pg) ==
    IF total_pg > 0 THEN [num |-> read_pg * 100, den |-> total_pg]
    ELSE [num |-> 0, den |-> 1]

\* the arguments sync_progress / sync pass to update_progress for a row
ArgsOf(b, row, force) ==
    [book |-> b, hc_numeric |-> row.hc_numeric,
     percentage |-> Percentage(row.read_pg, row.total_pg),
     status |-> row.status, seconds |-> row.read_time,
     last_read_date |-> row.last_open, start_date |-> row.start_date,
     force |-> force, edition_id |-> row.edition_id]

\* ORDER BY b.last_open DESC LIMIT ?: every order of the eligible rows that
\* is descending in last_open, cut to the limit
Selections(bks, eligible, limit) ==
    LET n == Cardinality(eligible)
        m == IF limit < n THEN limit ELSE n
    IN { SubSeq(q, 1, m) : q \in
          { p \in [1..n -> eligible] :
              /\ \A i, j \in 1..n : i # j => p[i] # p[j]
              /\ \A i, j \in 1..n :
                   i < j => bks[p[i]].last_open >= bks[p[j]].last_open } }

IdleRun(caller, n, args) ==
    [caller |-> caller, pc |-> "idle", n |-> n, ingests |-> 0, args |-> args,
     force |-> FALSE, selected |-> << >>, queue |-> << >>, cur |-> None,
     results |-> << >>, outcome |-> "none", ingest |-> None, web |-> None,
     map |-> None, list |-> None, orig |-> None, other |-> None,
     flag |-> None, imp |-> None, save |-> None]

\* ---------------------------------------------------------- direct caller
\* a caller of HardcoverClient.update_progress with fixed arguments (as the
\* tests of the client do), calling again once the call has returned; the
\* "retry" caller calls again only while no call has succeeded
DirectCall ==
    /\ run.caller \in {"direct", "retry"}
    /\ run.pc = "idle" /\ run.n < MaxRuns
    /\ run.caller = "retry" => last[run.args.book].ret # "true"
    /\ call' = EnterUpdateProgress(run.args)
    /\ log' = << >>
    /\ run' = [run EXCEPT !.pc = "calling"]
    /\ UNCHANGED <<books, remote, last>>

DirectReturn ==
    /\ run.caller \in {"direct", "retry"}
    /\ run.pc = "calling" /\ call.pc = "done"
    /\ last' = [last EXCEPT ![call.args.book] =
                    [ret |-> call.ret, args |-> call.args]]
    /\ call' = IdleCall
    /\ log' = << >>
    /\ run' = [run EXCEPT !.pc = "idle", !.n = @ + 1]
    /\ UNCHANGED <<books, remote>>

\* ---------------------------------------------------------- overlapping runs
\* web.py 95 and 211-217: the interval job runs scheduled_sync on a thread
\* of the BackgroundScheduler, POST /sync runs it as a background task on a
\* worker thread; nothing reads sync_status["state"] before starting and no
\* lock is taken, so two runs can be inside update_progress for the same
\* book at once.  run.other is the frame of the run that is not scheduled
\* at the moment.
OverlapCall ==
    /\ run.caller = "overlap" /\ run.pc = "idle"
    /\ call' = EnterUpdateProgress(run.args)
    /\ log' = << >>
    /\ run' = [run EXCEPT !.pc = "calling",
                  !.other = [call |-> EnterUpdateProgress(run.args),
                             log |-> << >>]]
    /\ UNCHANGED <<books, remote, last>>

\* the threads are preempted between any two requests
Switch ==
    /\ run.caller = "overlap" /\ run.pc = "calling"
    /\ run.other.call.pc # "done"
    /\ call' = run.other.call
    /\ log' = run.other.log
    /\ run' = [run EXCEPT !.other = [call |-> call, log |-> log]]
    /\ UNCHANGED <<books, remote, last>>

\* ------------------------------------------------------- scheduled_sync flag
\* executions of scheduled_sync that can be in progress at once: the interval
\* job of the BackgroundScheduler (web.py 95) and a background task of
\* POST /sync (web.py 211-217)
Execs == {"job", "task"}

\* web.py 52-56: the global sync_status; last_run is None or the time of the
\* last assignment (the clock counts the assignments), last_result is "None"
\* until the first execution sets it
IdleStatus == [state |-> "idle", last_run |-> None, last_result |-> "None"]

\* web.py 117-120: the function is entered and sets state to "running"
FlagEnter ==
    /\ run.caller = "flag"
    /\ \E e \in Execs :
         /\ run.flag.pc[e] = "off" /\ run.flag.runs[e] < MaxRuns
         /\ run' = [run EXCEPT !.flag.pc[e] = "try",
                               !.flag.status.state = "running"]
    /\ UNCHANGED <<books, remote, call, log, last>>

\* web.py 124-125: if config.WEBDAV_URL: engine.ingest_from_webdav(); the
\* call returns (its result is not used) or an exception leaves it
FlagIngest ==
    /\ run.caller = "flag"
    /\ \E e \in Execs, outcome \in {"returned", "raised"} :
         /\ run.flag.pc[e] = "try" /\ run.flag.webdav
         /\ run' = [run EXCEPT !.flag.pc[e] =
                       IF outcome = "raised" THEN "except" ELSE "sync"]
    /\ UNCHANGED <<books, remote, call, log, last>>

\* web.py 126-127: engine.sync_progress(limit=20), then last_result
FlagSync ==
    /\ run.caller = "flag"
    /\ \E e \in Execs, outcome \in {"returned", "raised"} :
         /\ \/ run.flag.pc[e] = "sync"
            \/ run.flag.pc[e] = "try" /\ ~run.flag.webdav
         /\ run' = IF outcome = "raised"
                   THEN [run EXCEPT !.flag.pc[e] = "except"]
                   ELSE [run EXCEPT !.flag.pc[e] = "finally",
                                    !.flag.status.last_result = "Success"]
    /\ UNCHANGED <<books, remote, call, log, last>>

\* mutant: the handler returns without the finally block
AfterExcept_NoFinally == "off"

\* web.py 128-131: the handler falls through to the finally block
AfterExcept == "finally"

\* web.py 128-130: except Exception: last_result = "Error: ..."
FlagExcept ==
    /\ run.caller = "flag"
    /\ \E e \in Execs :
         /\ run.flag.pc[e] = "except"
         /\ run' = [run EXCEPT !.flag.pc[e] = AfterExcept,
                               !.flag.status.last_result = "Error"]
    /\ UNCHANGED <<books, remote, call, log, last>>

\* web.py 131-132: finally: state = "idle"
FlagFinallyState ==
    /\ run.caller = "flag"
    /\ \E e \in Execs :
         /\ run.flag.pc[e] = "finally"
         /\ run' = [run EXCEPT !.flag.pc[e] = "last_run",
                               !.flag.status.state = "idle"]
    /\ UNCHANGED <<books, remote, call, log, last>>

\* web.py 133-135: last_run = now; the function returns
FlagFinallyLastRun ==
    /\ run.caller = "flag"
    /\ \E e \in Execs :
         /\ run.flag.pc[e] = "last_run"
         /\ run' = [run EXCEPT !.flag.pc[e] = "off",
                               !.flag.runs[e] = @ + 1,
                               !.flag.clock = @ + 1,
                               !.flag.status.last_run = run.flag.clock + 1]
    /\ UNCHANGED <<books, remote, call, log, last>>

\* ------------------------------------------------------------ import_books
AllBooks == {1, 2}

\* rows of koreader.book in a source database; sessions are the rows of
\* page_stat_data of the book
SourceRows ==
    { [pages |-> 100, total_read_pages |-> 99, total_read_time |-> 600,
       last_open |-> 4 * TicksPerDay + 1, sessions |-> {}] }

\* source databases: no book, or one book (keyed by md5)
Sources ==
    { << >> } \cup { [m \in {b} |-> k] : b \in AllBooks, k \in SourceRows }

\* the source rows of the ingestion scenario: page counts NULL, 0, 100 and
\* 1000 with read pages on both sides of the two thresholds, a NULL count of
\* read pages, and a book with one reading session
SourceRow(pg, rd, ss) ==
    [pages |-> pg, total_read_pages |-> rd, total_read_time |-> 600,
     last_open |-> 4 * TicksPerDay + 1, sessions |-> ss]

IngestSourceRows ==
    { SourceRow(None, 5, {}), SourceRow(0, 0, {}), SourceRow(0, 5, {}),
      SourceRow(100, 84, {}), SourceRow(100, 85, {}),
      SourceRow(1000, 979, {}), SourceRow(1000, 980, {}),
      SourceRow(100, None, {}),
      SourceRow(100, 50, {[page |-> 7, start_time |-> TicksPerDay]}) }

IngestSources ==
    { << >> } \cup { [m \in {b} |-> k] : b \in AllBooks, k \in IngestSourceRows }

\* database.py 134-195: UPDATE of the existing rows, INSERT of the new ones
ImportBooks(bks, src) ==
    [b \in DOMAIN bks \cup DOMAIN src |->
        IF b \notin DOMAIN src THEN bks[b]
        ELSE IF b \in DOMAIN bks
        THEN [bks[b] EXCEPT
                !.total_pg = src[b].pages,
                !.read_pg = src[b].total_read_pages,
                !.read_time = src[b].total_read_time,
                !.last_open = src[b].last_open,
                !.status = Classify(src[b].total_read_pages, src[b].pages)]
        ELSE [hc_numeric |-> TRUE, edition_id |-> None, mapped |-> FALSE,
              total_pg |-> src[b].pages, read_pg |-> src[b].total_read_pages,
              read_time |-> src[b].total_read_time,
              last_open |-> src[b].last_open, start_date |-> None,
              max_page |-> None, last_session |-> None,
              status |-> Classify(src[b].total_read_pages, src[b].pages),
              sync_status |-> "pending"]]

SetMin(S) == CHOOSE x \in S : \A y \in S : x <= y
SetMax(S) == CHOOSE x \in S : \A y \in S : x >= y

\* database.py 199-224: the sessions of the source that are not yet stored
\* are inserted.  The rows of the model carry what the callers read from
\* reading_sessions: MIN(start_time), MAX(start_time) and MAX(page) of the
\* book, which a session stored twice would not change.
ImportSessions(bks, src) ==
    [b \in DOMAIN bks |->
        IF b \notin DOMAIN src \/ src[b].sessions = {} THEN bks[b]
        ELSE LET old == bks[b]
                 starts == { x.start_time : x \in src[b].sessions }
                 pages == { x.page : x \in src[b].sessions }
             IN [old EXCEPT
                   !.start_date = SetMin(starts \cup
                       (IF old.start_date = None THEN {} ELSE {old.start_date})),
                   !.last_session = SetMax(starts \cup {old.last_session}),
                   !.max_page = SetMax(pages \cup {old.max_page})]]

\* the step of an ingestion that fails, if any: the source is not there
\* (WEBDAV_URL unset, file missing), the download, self.db.connect(),
\* import_books or import_sessions raises
FailPoints ==
    {"none", "unavailable", "fetch", "connect", "import_books",
     "import_sessions"}

\* the calls an ingestion makes, up to and including its failing step
IngestCalls(via, fail) ==
    LET steps == IF via = "webdav"
                 THEN <<"fetch", "connect", "import_books", "import_sessions">>
                 ELSE <<"connect", "import_books", "import_sessions">>
        n == IF fail = "unavailable" THEN 0
             ELSE IF fail = "none" THEN Len(steps)
             ELSE CHOOSE i \in 1..Len(steps) : steps[i] = fail
    IN SubSeq(steps, 1, n)

\* mutant: a failure of import_sessions is not reported
IngestReturn_IgnoresSessions(fail) == fail \in {"none", "import_sessions"}

\* engine.py 45/48 and 70/73: True at the end of the try block, False from
\* the early return and from the except clause
IngestReturn(fail) == fail = "none"

\* mutant: the temporary file is removed at the end of the try block only
RemoveTried_OnSuccessOnly(via, fail) == via = "webdav" /\ fail = "none"

\* engine.py 32-34 and 49-54: ingest_from_webdav creates the temporary file
\* after the WEBDAV_URL check; its finally block runs on every way out of
\* the try block and calls os.remove, the file being there
RemoveTried(via, fail) == via = "webdav" /\ fail # "unavailable"

\* engine.py 56-73 (ingest_from_local) and 23-54 (ingest_from_webdav): the
\* import runs inside try; self.db.connect() is the first call of the block.
\* DatabaseManager as written in database.py defines no connect method, the
\* test suite substitutes a mock whose connect succeeds: both are modelled,
\* fail = "connect" is the call that raises.  A failing import is one that
\* cannot attach the source and changes nothing.  What the call did and
\* returned is kept for the callers "ingest" and "web"; sync_progress and
\* its direct caller do not look at it.  os.remove of the temporary file
\* succeeds or raises (rm); the exception is passed over (engine.py 51-54),
\* so only the caller "ingest", which records it, distinguishes the two.
Ingest ==
    /\ run.caller \in {"engine", "ingest", "web"}
    /\ run.pc = "idle" /\ run.ingests < MaxIngests
    /\ \E src \in (IF run.caller = "ingest" THEN IngestSources ELSE Sources),
          fail \in FailPoints, rm \in {"removed", "raised"} :
        LET imported == ImportBooks(books, src)
        IN /\ (fail = "fetch" =>
                 (run.caller # "engine" => run.ingest.via = "webdav"))
           /\ (rm = "raised" =>
                 /\ run.caller = "ingest"
                 /\ RemoveTried(run.ingest.via, fail))
           /\ books' = CASE fail = "none" -> ImportSessions(imported, src)
                         [] fail = "import_sessions" -> imported
                         [] OTHER -> books
           /\ run' = IF run.caller # "engine"
                     THEN [run EXCEPT
                             !.ingests = @ + 1,
                             !.ingest = [via |-> @.via, src |-> src,
                                         fail |-> fail,
                                         calls |-> IngestCalls(@.via, fail),
                                         ret |-> IngestReturn(fail),
                                         remove_tried |->
                                             RemoveTried(@.via, fail),
                                         remove_raised |-> rm = "raised"]]
                     ELSE [run EXCEPT !.ingests = @ + 1]
    /\ UNCHANGED <<remote, call, log, last>>

\* ------------------------------------------------------ the import, by row
\* The local database as three tables: books (id -> row), reading_sessions
\* (the table has no key but its generated id, so a row [book_id, page,
\* start_time] can be stored several times: row -> number of copies) and
\* book_mappings (local_book_id -> row).  A source database has the tables
\* book (koreader id -> row with md5; "" stands for NULL and for '') and
\* page_stat_data (a set of rows [id_book, page, start_time]).

\* WHERE k.md5 IS NOT NULL AND k.md5 != ''
ValidMd5(k) == k.md5 # ""

\* the source rows the UPDATE joins to the stored book id
SrcMatches(src, id) == { i \in DOMAIN src.book : src.book[i].md5 = id }

\* mutant: the UPDATE resets the marker of the book
UpdatedRow_ResetsMarker(row, i, k) ==
    [row EXCEPT !.koreader_id = i, !.total_pg = k.pages,
                !.read_pg = k.total_read_pages,
                !.status = Classify(k.total_read_pages, k.pages),
                !.sync_status = "pending"]

\* database.py 134-161: the SET list of the UPDATE (sync_status is not in it)
UpdatedRow(row, i, k) ==
    [row EXCEPT !.koreader_id = i, !.total_pg = k.pages,
                !.read_pg = k.total_read_pages,
                !.status = Classify(k.total_read_pages, k.pages)]

\* database.py 163-193: the SELECT list of the INSERT
InsertedRow(i, k) ==
    [koreader_id |-> i, total_pg |-> k.pages, read_pg |-> k.total_read_pages,
     status |-> Classify(k.total_read_pages, k.pages),
     sync_status |-> "pending"]

\* UPDATE books ... FROM koreader.book k WHERE books.id = k.md5: a stored book
\* that several source rows match takes the values of one of them, and the
\* database does not say which; every choice is a result
UpdateResults(tbl, src) ==
    LET hit == { id \in DOMAIN tbl : SrcMatches(src, id) # {} }
        picks == { f \in [hit -> DOMAIN src.book] :
                     \A id \in hit : f[id] \in SrcMatches(src, id) }
    IN { [id \in DOMAIN tbl |->
            IF id \in hit
            THEN UpdatedRow(tbl[id], f[id], src.book[f[id]])
            ELSE tbl[id]] : f \in picks }

\* the source rows the INSERT selects: a valid md5 that is not stored
NewRows(tbl, src) ==
    { i \in DOMAIN src.book :
        ValidMd5(src.book[i]) /\ src.book[i].md5 \notin DOMAIN tbl }

\* two selected rows with one md5: the INSERT violates the primary key of
\* books and raises, nothing is inserted
InsertConflict(tbl, src) ==
    \E i, j \in NewRows(tbl, src) : i # j /\ src.book[i].md5 = src.book[j].md5

InsertNew(tbl, src) ==
    LET new == NewRows(tbl, src)
        ids == { src.book[i].md5 : i \in new }
    IN [id \in DOMAIN tbl \cup ids |->
          IF id \in DOMAIN tbl THEN tbl[id]
          ELSE LET i == CHOOSE i \in new : src.book[i].md5 = id
               IN InsertedRow(i, src.book[i])]

\* database.py 204-222: the rows the SELECT of import_sessions yields, with
\* the number of times each is yielded: page_stat_data joined with book, a
\* valid md5, and no stored session of that book and start time.  The NOT
\* EXISTS looks at the table as it was before the statement.
SelectedSessions(sessions, src) ==
    LET pairs == { p \in src.page_stat_data \X DOMAIN src.book :
                     /\ p[1].id_book = p[2]
                     /\ ValidMd5(src.book[p[2]])
                     /\ ~\E rs \in DOMAIN sessions :
                           /\ rs.book_id = src.book[p[2]].md5
                           /\ rs.start_time = p[1].start_time }
        RowOf(p) == [book_id |-> src.book[p[2]].md5, page |-> p[1].page,
                     start_time |-> p[1].start_time]
        rows == { RowOf(p) : p \in pairs }
    IN [r \in rows |-> Cardinality({ p \in pairs : RowOf(p) = r })]

\* INSERT INTO reading_sessions: the selected rows are added
InsertSessions(sessions, src) ==
    LET sel == SelectedSessions(sessions, src)
    IN [r \in DOMAIN sessions \cup DOMAIN sel |->
          (IF r \in DOMAIN sessions THEN sessions[r] ELSE 0)
          + (IF r \in DOMAIN sel THEN sel[r] ELSE 0)]

\* source databases of the import scenario
ImportSourceBooks ==
    { [i \in {1} |-> [md5 |-> m, pages |-> 100, total_read_pages |-> rd]] :
        m \in {"a", ""}, rd \in {50, 99} }
    \cup { [i \in {1, 2} |->
              IF i = 1 THEN [md5 |-> m, pages |-> 100, total_read_pages |-> rd]
              ELSE [md5 |-> m2, pages |-> 100, total_read_pages |-> 99]] :
            m \in {"a", ""}, rd \in {50, 99}, m2 \in {"a", "b"} }

PageStat(b, pg, st) == [id_book |-> b, page |-> pg, start_time |-> st]

ImportSourceSessions ==
    { {}, {PageStat(1, 7, 1)}, {PageStat(1, 8, 2)},
      {PageStat(1, 7, 1), PageStat(1, 8, 1)},
      {PageStat(1, 7, 1), PageStat(2, 7, 1)} }

ImportSources ==
    [book : ImportSourceBooks, page_stat_data : ImportSourceSessions]

\* engine.py 41-43 and 66-68: import_books, then import_sessions, for one
\* source; an exception of import_books (the primary key) leaves the block
\* after the UPDATE and before the sessions
ImportSource ==
    /\ run.caller = "import" /\ run.imp.n < MaxIngests + 1
    /\ \E src \in ImportSources :
         \E updated \in UpdateResults(books.books, src) :
           /\ books' =
                IF InsertConflict(updated, src)
                THEN [books EXCEPT !.books = updated]
                ELSE [books EXCEPT
                        !.books = InsertNew(updated, src),
                        !.reading_sessions = InsertSessions(@, src)]
           /\ run' = [run EXCEPT !.imp =
                        [n |-> @.n + 1, src |-> src,
                         raised |-> InsertConflict(updated, src)]]
    /\ UNCHANGED <<remote, call, log, last>>

\* ------------------------------------------- sync_progress and CLI sync
\* mutant: sync_progress has no except clause
Abort_Raises(r) == [r EXCEPT !.pc = "returned", !.outcome = "raised", !.cur = None]

\* engine.py 145-148: the exception leaves the loop, the results so far are
\* returned
Abort(r) == [r EXCEPT !.pc = "returned", !.outcome = "error", !.cur = None]

\* engine.py 82-108 / main.py 180-212: token check, connection, selection.
\* The force flag of the caller (sync_progress(force), --force) is run.force,
\* the same in every run of a behaviour.  dbOk = FALSE is db.connect() or
\* get_connection() raising (see Ingest).
\* The CLI imports the source first (main.py 182-185), selects among all
\* books and maps each in the loop; sync_progress selects the mapped books.
\* scheduled_sync calls sync_progress(limit=20), more than there are books.
SyncStart ==
    /\ run.caller \in {"engine", "cli", "web"}
    /\ run.pc = "idle" /\ run.n < MaxRuns
    /\ \E token \in BOOLEAN, dbOk \in BOOLEAN,
          limit \in 1..Cardinality(AllBooks), src \in Sources :
        LET imported == IF run.caller = "cli" /\ dbOk
                        THEN ImportBooks(books, src) ELSE books
            eligible == IF run.caller = "cli" THEN DOMAIN imported
                        ELSE { b \in DOMAIN books : books[b].mapped }
        IN /\ run.caller # "cli" => src = << >>
           /\ run.caller = "web" => limit = Cardinality(AllBooks)
           /\ books' = imported
           /\ IF run.caller # "cli" /\ ~token
              THEN run' = [run EXCEPT !.pc = "returned", !.outcome = "no_token"]
              ELSE IF ~dbOk
              THEN run' = Abort(run)
              ELSE IF ~token
              THEN run' = [run EXCEPT !.pc = "returned", !.outcome = "no_token"]
              ELSE \E q \in Selections(imported, eligible, limit) :
                     run' = [run EXCEPT !.pc = "loop",
                                        !.selected = q, !.queue = q]
    /\ UNCHANGED <<remote, call, log, last>>

\* engine.py 110-135 / main.py 214-250: one iteration up to the call
SyncNextBook ==
    /\ run.pc = "loop" /\ run.queue # << >>
    /\ LET b == Head(run.queue)
           row == books[b]
       IN IF run.caller = "cli" /\ ~row.mapped
          THEN \* mapper.map_book returned None: continue
               /\ run' = [run EXCEPT !.queue = Tail(@)]
               /\ UNCHANGED <<call, log>>
          ELSE IF row.total_pg = None \/ (row.total_pg > 0 /\ row.read_pg = None)
          THEN \* TypeError in the percentage expression, outside any inner try
               /\ run' = Abort(run)
               /\ UNCHANGED <<call, log>>
          ELSE /\ call' = EnterUpdateProgress(ArgsOf(b, row, run.force))
               /\ log' = << >>
               /\ run' = [run EXCEPT !.pc = "calling", !.cur = b,
                                     !.queue = Tail(@)]
    /\ UNCHANGED <<books, remote, last>>

\* mutant: the marker is written whatever update_progress returned
ShouldMark_Always(success) == TRUE

\* engine.py 137 / main.py 252: if success
ShouldMark(success) == success

\* engine.py 137-143 / main.py 252-263: the marker write and the result
SyncAfterCall ==
    /\ run.caller \in {"engine", "cli", "web"}
    /\ run.pc = "calling" /\ call.pc = "done"
    /\ LET b == run.cur
           entry == <<b, call.ret = "true">>
           appended == IF run.caller # "cli"
                       THEN [run EXCEPT !.pc = "loop", !.cur = None,
                                        !.results = Append(@, entry)]
                       ELSE [run EXCEPT !.pc = "loop", !.cur = None]
       IN /\ last' = [last EXCEPT ![b] = [ret |-> call.ret, args |-> call.args]]
          /\ IF call.ret = "raised"
             THEN run' = Abort(run) /\ UNCHANGED books
             ELSE IF ~ShouldMark(call.ret = "true")
             THEN run' = appended /\ UNCHANGED books
             ELSE \E writeOk \in BOOLEAN :
                    IF writeOk
                    THEN /\ books' = [books EXCEPT ![b].sync_status = "synced"]
                         /\ run' = appended
                    ELSE run' = Abort(run) /\ UNCHANGED books
    /\ call' = IdleCall
    /\ log' = << >>
    /\ UNCHANGED remote

\* engine.py 148: return results (after the loop or after the except)
SyncReturn ==
    /\ run.pc = "loop" /\ run.queue = << >>
    /\ run' = [run EXCEPT !.pc = "returned", !.outcome = "ok"]
    /\ UNCHANGED <<books, remote, call, log, last>>

\* mutant: a failed book makes the run an error
WebResult_FailsWithBook(r) ==
    IF r.outcome \in {"raised", "error"}
       \/ \E i \in 1..Len(r.results) : ~r.results[i][2]
    THEN "Error" ELSE "Success"

\* web.py 123-130: last_result is "Success" after the engine calls, an error
\* text when an exception escaped them
WebResult(r) == IF r.outcome = "raised" THEN "Error" ELSE "Success"

\* web.py 117-122: scheduled_sync starts (from the scheduler or from POST
\* /sync): sync_status["state"] = "running"
ScheduledSync ==
    /\ run.caller = "web" /\ run.pc = "off" /\ run.n < MaxRuns
    /\ run' = [run EXCEPT !.pc = "idle", !.web.state = "running"]
    /\ UNCHANGED <<books, remote, call, log, last>>

\* the caller of the run takes the result; the next run may start.
\* web.py 127-133: scheduled_sync sets last_result and state = "idle"
SyncFinish ==
    /\ run.pc = "returned"
    /\ run' = [IdleRun(run.caller, run.n + 1, None) EXCEPT
                 !.ingests = run.ingests, !.force = run.force,
                 !.ingest = run.ingest,
                 !.pc = IF run.caller = "web" THEN "off" ELSE "idle",
                 !.web = IF run.caller = "web"
                         THEN [state |-> "idle", last_result |-> WebResult(run)]
                         ELSE run.web]
    /\ UNCHANGED <<books, remote, call, log, last>>

\* ----------------------------------------------------------------- map_book
MaxRetitles == 1

\* what map_book returned: a (hardcover_id, edition_id) pair, None, or an
\* exception
MapPair(h, e) == [kind |-> "pair", hardcover_id |-> h, edition_id |-> e]
MapNone == [kind |-> "None", hardcover_id |-> None, edition_id |-> None]
MapRaised == [kind |-> "raised", hardcover_id |-> None, edition_id |-> None]

MapReturned(m, ret) == [m EXCEPT !.pc = "returned", !.ret = ret]

\* mutant: the stored mapping is never looked up
UseExisting_Never(force, existing) == FALSE

\* mapping.py 20-23: if not force: existing = get_book_mapping(); if existing
UseExisting(force, existing) == ~force /\ existing

\* mapping.py 12-37, also entered again from line 97 with force = False
EnterMapBook(m, bks, local_id, force) ==
    IF UseExisting(force, bks[local_id].mapped)
    THEN MapReturned([m EXCEPT !.local_id = local_id, !.force = force],
                     MapPair(bks[local_id].hardcover_id,
                             bks[local_id].edition_id))
    ELSE [m EXCEPT !.local_id = local_id, !.force = force,
                   !.pc = "search_shelf"]

\* main.py 106 and 228: the CLI calls mapper.map_book for a stored book
MapBook ==
    /\ run.caller = "map" /\ run.map.pc = "idle" /\ run.n < MaxRuns
    /\ \E local_id \in DOMAIN books, force \in BOOLEAN :
         run' = [run EXCEPT !.map =
                   EnterMapBook([@ EXCEPT !.prompts = 0, !.retitles = 0,
                                          !.ret = MapNone],
                                books, local_id, force)]
    /\ log' = << >>
    /\ UNCHANGED <<books, remote, call, last>>

\* mapping.py 39-72: search_shelf; one hit is taken, several are offered,
\* none leads to the global search; an error of the request leaves map_book
MapSearchShelf ==
    /\ run.caller = "map" /\ run.map.pc = "search_shelf"
    /\ Issue("search_shelf", [local_id |-> run.map.local_id])
    /\ \E hits \in {"fail", "none", "one", "many"} :
         run' = [run EXCEPT !.map =
                   CASE hits = "fail" -> MapReturned(@, MapRaised)
                     [] hits = "none" -> [@ EXCEPT !.pc = "search_books"]
                     [] hits = "one" -> [@ EXCEPT !.pc = "editions"]
                     [] OTHER -> [@ EXCEPT !.pc = "choose"]]
    /\ UNCHANGED <<books, remote, call, last>>

\* mapping.py 68-78: search_books; no result returns None
MapSearchBooks ==
    /\ run.caller = "map" /\ run.map.pc = "search_books"
    /\ Issue("search_books", [local_id |-> run.map.local_id])
    /\ \E hits \in {"fail", "none", "some"} :
         run' = [run EXCEPT !.map =
                   CASE hits = "fail" -> MapReturned(@, MapRaised)
                     [] hits = "none" -> MapReturned(@, MapNone)
                     [] OTHER -> [@ EXCEPT !.pc = "choose"]]
    /\ UNCHANGED <<books, remote, call, last>>

\* mapping.py 80-121: the prompt; "0" skips, "s" asks for a new title and
\* calls map_book again (without force), a number in range goes on to the
\* editions, anything else returns None
MapChoose ==
    /\ run.caller = "map" /\ run.map.pc = "choose"
    /\ \E choice \in {"0", "s", "1", "x"} :
         /\ choice = "s" => run.map.retitles < MaxRetitles
         /\ run' = [run EXCEPT !.map =
                     CASE choice = "s" ->
                            EnterMapBook([@ EXCEPT !.prompts = @ + 2,
                                                   !.retitles = @ + 1],
                                         books, @.local_id, FALSE)
                       [] choice = "1" ->
                            [@ EXCEPT !.prompts = @ + 1, !.pc = "editions"]
                       [] OTHER ->
                            MapReturned([@ EXCEPT !.prompts = @ + 1], MapNone)]
    /\ UNCHANGED <<books, remote, call, log, last>>

\* mapping.py 123-165 and 54-62 / 108-117: get_editions, the edition prompt
\* when there are editions, then save_book_mapping.  The mapper passes six
\* arguments (the slug last) to a method that takes five (database.py
\* 254-261): the call raises TypeError and nothing is stored.
MapEditions ==
    /\ run.caller = "map" /\ run.map.pc = "editions"
    /\ Issue("get_editions", [local_id |-> run.map.local_id])
    /\ \E editions \in {"fail", "none", "some"} :
         run' = [run EXCEPT !.map =
                   MapReturned([@ EXCEPT !.prompts =
                                   IF editions = "some" THEN @ + 1 ELSE @],
                               MapRaised)]
    /\ UNCHANGED <<books, remote, call, last>>

\* the caller has the result; it may call again
MapBookReturn ==
    /\ run.caller = "map" /\ run.map.pc = "returned"
    /\ run' = [run EXCEPT !.n = @ + 1, !.map = [@ EXCEPT !.pc = "idle"]]
    /\ log' = << >>
    /\ UNCHANGED <<books, remote, call, last>>

\* ------------------------------------------------------------ book_mappings
MaxSaves == 3

\* the table as a set of rows; local_book_id is its primary key
MappingRow(id, h, e) ==
    [local_book_id |-> id, hardcover_id |-> h, edition_id |-> e]

\* mutant: a row that exists is left as it is (ON CONFLICT DO NOTHING)
SaveBookMapping_KeepsOld(tbl, id, h, e) ==
    IF \E r \in tbl : r.local_book_id = id THEN tbl
    ELSE tbl \cup {MappingRow(id, h, e)}

\* database.py 254-276: INSERT ... ON CONFLICT (local_book_id) DO UPDATE SET
\* hardcover_id, edition_id, ... = excluded.*
SaveBookMapping(tbl, id, h, e) ==
    IF \E r \in tbl : r.local_book_id = id
    THEN { IF r.local_book_id = id
           THEN [r EXCEPT !.hardcover_id = h, !.edition_id = e]
           ELSE r : r \in tbl }
    ELSE tbl \cup {MappingRow(id, h, e)}

\* database.py 245-252: fetchone() of the rows with that local_book_id:
\* the results the call can give
GetBookMapping(tbl, id) ==
    IF \E r \in tbl : r.local_book_id = id
    THEN { MapPair(r.hardcover_id, r.edition_id) :
             r \in { q \in tbl : q.local_book_id = id } }
    ELSE { MapNone }

\* web.py 326-339: POST /map/{book_id}/confirm saves the submitted mapping;
\* run.save.latest keeps what was submitted last for each book
MapBookConfirm ==
    /\ run.caller = "save" /\ run.save.n < MaxSaves
    /\ \E id \in {"a", "b"}, h \in {1001, 1002}, e \in {None, 7} :
         /\ books' = [books EXCEPT
                        !.book_mappings = SaveBookMapping(@, id, h, e)]
         /\ run' = [run EXCEPT !.save.n = @ + 1,
                               !.save.latest[id] = MapPair(h, e)]
    /\ UNCHANGED <<remote, call, log, last>>

\* mapping.py 21: a caller asks for the mapping of a book
AskBookMapping ==
    /\ run.caller = "save"
    /\ \E id \in {"a", "b"} :
         \E ret \in GetBookMapping(books.book_mappings, id) :
           run' = [run EXCEPT !.save.asked = id, !.save.got = ret]
    /\ UNCHANGED <<books, remote, call, log, last>>

\* ---------------------------------------------------------- get_local_books
MaxTableRows == 3
MaxLimit == 3

\* text is a sequence of characters; NoText is the NULL column value and the
\* None argument
NoText == <<"NULL">>

\* ILIKE compares without case
Lower(c) == CASE c = "A" -> "a" [] c = "B" -> "b" [] c = "C" -> "c" [] OTHER -> c

LowerText(t) == [i \in DOMAIN t |-> Lower(t[i])]

\* column ILIKE '%query%': NULL matches nothing, otherwise the query occurs
\* somewhere in the column, case ignored
ILike(column, query) ==
    /\ column # NoText
    /\ \E i \in 1..(Len(column) + 1) :
         /\ i + Len(query) - 1 <= Len(column)
         /\ SubSeq(LowerText(column), i, i + Len(query) - 1) = LowerText(query)

\* database.py 99-102: `if query:` adds the WHERE clause; None and the
\* empty string leave every book in
Matches(row, query) ==
    IF query = NoText \/ query = << >>
    THEN TRUE
    ELSE ILike(row.title, query) \/ ILike(row.authors, query)

Matching(tbl, query) == {b \in DOMAIN tbl : Matches(tbl[b], query)}

\* mutant: the count ignores the WHERE clause
CountTotal_Unfiltered(tbl, query) == Cardinality(DOMAIN tbl)

\* database.py 105-106: SELECT COUNT(*) FROM books b {where_clause}
CountTotal(tbl, query) == Cardinality(Matching(tbl, query))

\* ORDER BY b.last_open DESC NULLS LAST: x may stand before y
MayPrecede(x, y) == y = None \/ (x # None /\ x >= y)

\* every order the ORDER BY allows for the matching books (ties and NULLs
\* are in no particular order)
Orderings(tbl, query) ==
    LET ids == Matching(tbl, query)
        n == Cardinality(ids)
    IN { o \in [1..n -> ids] :
           /\ \A i, j \in 1..n : i # j => o[i] # o[j]
           /\ \A i \in 1..n : i < n =>
                MayPrecede(tbl[o[i]].last_open, tbl[o[i + 1]].last_open) }

\* database.py 110-118: the selected columns; is_mapped is the CASE over the
\* LEFT JOIN on book_mappings
ListedRow(tbl, b) ==
    [id |-> b, title |-> tbl[b].title, authors |-> tbl[b].authors,
     last_open |-> tbl[b].last_open,
     is_mapped |-> IF tbl[b].mapped THEN 1 ELSE 0]

\* LIMIT ? OFFSET ?
Page(tbl, order, limit, offset) ==
    LET hi == IF offset + limit < Len(order) THEN offset + limit ELSE Len(order)
    IN [i \in 1..(IF hi > offset THEN hi - offset ELSE 0) |->
          ListedRow(tbl, order[offset + i])]

\* database.py 88-127
GetLocalBooks ==
    /\ run.caller = "list" /\ run.list.pc = "idle"
    /\ \E order \in Orderings(books, run.list.query) :
         run' = [run EXCEPT !.list =
                   [@ EXCEPT !.pc = "done",
                             !.total = CountTotal(books, run.list.query),
                             !.rows = Page(books, order, run.list.limit,
                                           run.list.offset)]]
    /\ UNCHANGED <<books, remote, call, log, last>>

\* ---------------------------------------------------------------- Init
\* direct scenario: one remote book, any local arguments, any remote state
DirectPercentages == { [num |-> 50, den |-> 1], [num |-> 99, den |-> 1] }
LocalSeconds == {1, 60}
LocalStarts == {None, TicksPerDay + 1}
LocalLasts == {2 * TicksPerDay + 1}
LocalEditions == {None, 7}
RemoteEditions == {None, 7}
RemotePages == {3, 4}
RemoteSeconds == {0, 1}
RemoteStarts == {None, 2}
RemoteFinishes == {None, 1}
EditionPageCounts == {None, 10}
BookPageCounts == {None, 0, 20}

DirectArgs ==
    [book : {1}, hc_numeric : {TRUE}, percentage : DirectPercentages,
     status : {"reading", "finished"}, seconds : LocalSeconds,
     last_read_date : LocalLasts, start_date : LocalStarts,
     force : BOOLEAN, edition_id : LocalEditions]

\* remote read records; those of the second set had their page written by
\* another client and never had a time: progress_seconds is null
RemoteReads ==
    [progress_pages : RemotePages, progress_seconds : RemoteSeconds,
     started_at : RemoteStarts, finished_at : RemoteFinishes]
    \cup [progress_pages : RemotePages, progress_seconds : {None},
          started_at : {None}, finished_at : {None}]

RemoteUserBooks ==
    [status_id : {StatusReading, StatusFinished}, edition_id : RemoteEditions,
     reads : {<< >>} \cup { <<rd>> : rd \in RemoteReads }]

RemoteBookStates ==
    [edition_pages : EditionPageCounts, book_pages : BookPageCounts,
     ubs : {<< >>} \cup { <<ub>> : ub \in RemoteUserBooks }]

NoCall == [ret |-> "none", args |-> None]

InitDirect ==
    /\ books = << >>
    /\ \E r \in RemoteBookStates : remote = [b \in {1} |-> r]
    /\ \E a \in DirectArgs : run = IdleRun("direct", 0, a)
    /\ call = IdleCall
    /\ log = << >>
    /\ last = [b \in {1} |-> NoCall]

\* sync scenario: the local tables hold one or two books, none of them on
\* the remote shelf yet.  max_page and last_session are MAX(page) and
\* MAX(start_time) of the book's reading_sessions rows: the reader went on
\* to page 99 while 50 pages count as read
SyncRow(h, m, tp) ==
    [hc_numeric |-> h, edition_id |-> None, mapped |-> m,
     total_pg |-> tp, read_pg |-> 50, read_time |-> 60,
     last_open |-> 2 * TicksPerDay, start_date |-> None,
     max_page |-> 99, last_session |-> 3 * TicksPerDay,
     status |-> Classify(50, tp), sync_status |-> "pending"]

\* a plain row, and the rows that differ from it in one column: a remote id
\* that is not numeric, no mapping, a NULL page total, a page total of 0
SyncRows ==
    { SyncRow(TRUE, TRUE, 100), SyncRow(FALSE, TRUE, 100),
      SyncRow(TRUE, FALSE, 100), SyncRow(TRUE, TRUE, None),
      SyncRow(TRUE, TRUE, 0) }

\* a mapped book with a numeric remote id and a page total
PlainRows == { r \in SyncRows : r.hc_numeric /\ r.mapped /\ r.total_pg = 100 }

InitSync ==
    /\ \E d \in {{1}, {1, 2}} :
         books \in { f \in [d -> SyncRows] : 2 \in d => f[2] \in PlainRows }
    /\ remote = [b \in AllBooks |->
                    [edition_pages |-> None, book_pages |-> 200, ubs |-> << >>]]
    /\ \E c \in {"engine", "cli"}, force \in BOOLEAN :
         run = [IdleRun(c, 0, None) EXCEPT !.force = force]
    /\ call = IdleCall
    /\ log = << >>
    /\ last = [b \in AllBooks |-> NoCall]

Init == InitDirect \/ InitSync

\* ingestion scenario: the books table is empty or holds book 1 with a
\* status left from an earlier import; one caller of ingest_from_local or
\* ingest_from_webdav
StoredRows ==
    { [SyncRow(TRUE, FALSE, 100) EXCEPT !.status = st, !.start_date = sd] :
        st \in {"reading", "finished"}, sd \in {None, 2 * TicksPerDay} }

InitIngest ==
    /\ books \in { << >> } \cup { [b \in {1} |-> r] : r \in StoredRows }
    /\ remote = [b \in AllBooks |->
                    [edition_pages |-> None, book_pages |-> 200, ubs |-> << >>]]
    /\ \E via \in {"local", "webdav"} :
         run = [IdleRun("ingest", 0, None) EXCEPT
                  !.ingest = [via |-> via, src |-> << >>, fail |-> "none",
                              calls |-> << >>, ret |-> FALSE,
                              remove_tried |-> FALSE, remove_raised |-> FALSE]]
    /\ call = IdleCall
    /\ log = << >>
    /\ last = [b \in AllBooks |-> NoCall]

NextIngest == Ingest

\* mapping scenario: one or two stored books, each with or without a row in
\* book_mappings (hardcover_id, edition_id)
MapRow(m, h, e) ==
    [mapped |-> m, hardcover_id |-> h, edition_id |-> e, total_pg |-> 100]

MapRows ==
    { MapRow(FALSE, None, None) }
    \cup { MapRow(TRUE, h, e) : h \in {1001, 1002}, e \in {None, 7} }

InitMap ==
    /\ \E d \in {{1}, {1, 2}} : books \in [d -> MapRows]
    /\ remote = [b \in AllBooks |->
                    [edition_pages |-> None, book_pages |-> 200, ubs |-> << >>]]
    /\ run = [IdleRun("map", 0, None) EXCEPT
                !.map = [pc |-> "idle", local_id |-> None, force |-> FALSE,
                         ret |-> MapNone, prompts |-> 0, retitles |-> 0]]
    /\ call = IdleCall
    /\ log = << >>
    /\ last = [b \in AllBooks |-> NoCall]

NextMap ==
    \/ MapBook \/ MapSearchShelf \/ MapSearchBooks \/ MapChoose
    \/ MapEditions \/ MapBookReturn

SpecMap == InitMap /\ [][NextMap]_vars

\* listing scenario: a books table of up to MaxTableRows rows, some of them
\* mapped, and one call of get_local_books(query, limit, offset)
ListRow(t, a, lo, m) ==
    [title |-> t, authors |-> a, last_open |-> lo, mapped |-> m]

ListRows ==
    { ListRow(<<"A", "b">>, <<"c">>, 2, TRUE),
      ListRow(<<"b">>, <<"a">>, 1, FALSE),
      ListRow(<<"b">>, <<"C">>, None, FALSE),
      ListRow(NoText, <<"a">>, 2, TRUE),
      ListRow(<<"A", "b">>, <<"a">>, 1, TRUE),
      ListRow(<<"B">>, <<"c">>, 2, FALSE) }

ListQueries == {NoText, << >>, <<"a">>, <<"B">>, <<"a", "B">>}

InitList ==
    /\ \E n \in 0..MaxTableRows : books \in [1..n -> ListRows]
    /\ remote = [b \in AllBooks |->
                    [edition_pages |-> None, book_pages |-> 200, ubs |-> << >>]]
    /\ \E query \in ListQueries, limit \in 0..MaxLimit, offset \in 0..MaxLimit :
         run = [IdleRun("list", 0, None) EXCEPT
                  !.list = [pc |-> "idle", query |-> query, limit |-> limit,
                            offset |-> offset, total |-> 0, rows |-> << >>]]
    /\ call = IdleCall
    /\ log = << >>
    /\ last = [b \in AllBooks |-> NoCall]

NextList == GetLocalBooks

SpecList == InitList /\ [][NextList]_vars

\* recovery scenario: the direct scenario with a caller that repeats the
\* call until it succeeds; run.orig keeps the remote state of the book
\* before the first call
InitRecovery ==
    /\ books = << >>
    /\ \E r \in RemoteBookStates :
         /\ remote = [b \in {1} |-> r]
         /\ \E a \in DirectArgs :
              run = [IdleRun("retry", 0, a) EXCEPT !.orig = r]
    /\ call = IdleCall
    /\ log = << >>
    /\ last = [b \in {1} |-> NoCall]

NextRecovery ==
    \/ DirectCall \/ DirectReturn
    \/ GetEditionPages \/ GetBookPages \/ GetUserBookInfo
    \/ CreateUserBook \/ GetNewUserBook \/ CreateUserBookRead
    \/ UpdateUBR \/ UpdateUB

SpecRecovery == InitRecovery /\ [][NextRecovery]_vars

\* overlap scenario: two runs reconcile book 1, which is not on the remote
\* shelf, with the arguments both read from the same local row
OverlapArgs == { a \in DirectArgs : a.start_date = None }

InitOverlap ==
    /\ books = << >>
    /\ \E ep \in EditionPageCounts :
         remote = [b \in {1} |->
                     [edition_pages |-> ep, book_pages |-> 20, ubs |-> << >>]]
    /\ \E a \in OverlapArgs : run = IdleRun("overlap", 0, a)
    /\ call = IdleCall
    /\ log = << >>
    /\ last = [b \in {1} |-> NoCall]

\* UpdateUB is not among the steps: both runs send the same status and
\* edition, so a user-book either run finds or creates already has them
NextOverlap ==
    \/ OverlapCall \/ Switch
    \/ GetEditionPages \/ GetBookPages \/ GetUserBookInfo
    \/ CreateUserBook \/ GetNewUserBook \/ CreateUserBookRead
    \/ UpdateUBR

SpecOverlap == InitOverlap /\ [][NextOverlap]_vars

\* flag scenario: the dashboard process with WEBDAV_URL set or not, no
\* execution of scheduled_sync in progress
InitFlag ==
    /\ books = << >>
    /\ remote = [b \in AllBooks |->
                    [edition_pages |-> None, book_pages |-> 200, ubs |-> << >>]]
    /\ \E webdav \in BOOLEAN :
         run = [IdleRun("flag", 0, None) EXCEPT
                  !.flag = [pc |-> [e \in Execs |-> "off"],
                            runs |-> [e \in Execs |-> 0],
                            webdav |-> webdav, clock |-> 0,
                            status |-> IdleStatus]]
    /\ call = IdleCall
    /\ log = << >>
    /\ last = [b \in AllBooks |-> NoCall]

NextFlag ==
    \/ FlagEnter \/ FlagIngest \/ FlagSync \/ FlagExcept
    \/ FlagFinallyState \/ FlagFinallyLastRun

SpecFlag == InitFlag /\ [][NextFlag]_vars

\* import scenario: the local database is empty, or holds book "a", synced
\* and mapped, with or without a stored session
StoredBook ==
    [koreader_id |-> 1, total_pg |-> 100, read_pg |-> 50,
     status |-> "reading", sync_status |-> "synced"]

StoredSession == [book_id |-> "a", page |-> 7, start_time |-> 1]

NoSource == [book |-> << >>, page_stat_data |-> {}]

InitImport ==
    /\ books \in
         { [books |-> << >>, reading_sessions |-> << >>,
            book_mappings |-> << >>] }
         \cup { [books |-> [id \in {"a"} |-> StoredBook],
                 reading_sessions |-> ss,
                 book_mappings |-> [id \in {"a"} |->
                    [hardcover_id |-> 1001, edition_id |-> 7]]] :
                 ss \in { << >>, [r \in {StoredSession} |-> 1] } }
    /\ remote = [b \in AllBooks |->
                    [edition_pages |-> None, book_pages |-> 200, ubs |-> << >>]]
    /\ run = [IdleRun("import", 0, None) EXCEPT
                !.imp = [n |-> 0, src |-> NoSource, raised |-> FALSE]]
    /\ call = IdleCall
    /\ log = << >>
    /\ last = [b \in AllBooks |-> NoCall]

NextImport == ImportSource

SpecImport == InitImport /\ [][NextImport]_vars

\* mapping-table scenario: book_mappings is empty, nothing was saved or
\* asked yet
InitSave ==
    /\ books = [book_mappings |-> {}]
    /\ remote = [b \in AllBooks |->
                    [edition_pages |-> None, book_pages |-> 200, ubs |-> << >>]]
    /\ run = [IdleRun("save", 0, None) EXCEPT
                !.save = [n |-> 0, latest |-> [id \in {"a", "b"} |-> MapNone],
                          asked |-> "a", got |-> MapNone]]
    /\ call = IdleCall
    /\ log = << >>
    /\ last = [b \in AllBooks |-> NoCall]

NextSave == MapBookConfirm \/ AskBookMapping

SpecSave == InitSave /\ [][NextSave]_vars

\* every thread that is inside scheduled_sync goes on running, and the calls
\* it makes return or raise (every remote request has a 30 s timeout)
SpecFlagLive == SpecFlag /\ WF_vars(FlagIngest) /\ WF_vars(FlagSync)
                /\ WF_vars(FlagExcept) /\ WF_vars(FlagFinallyState)
                /\ WF_vars(FlagFinallyLastRun)

\* web scenario: the dashboard process runs scheduled_sync over one or two
\* stored books, with WEBDAV_URL set (the run ingests first) or not
InitWeb ==
    /\ \E d \in {{1}, {1, 2}} :
         books \in { f \in [d -> SyncRows] : 2 \in d => f[2] \in PlainRows }
    /\ remote = [b \in AllBooks |->
                    [edition_pages |-> None, book_pages |-> 200, ubs |-> << >>]]
    /\ run = [IdleRun("web", 0, None) EXCEPT
                !.pc = "off",
                !.web = [state |-> "idle", last_result |-> "none"],
                !.ingest = [via |-> "webdav", src |-> << >>, fail |-> "none",
                            calls |-> << >>, ret |-> FALSE,
                              remove_tried |-> FALSE, remove_raised |-> FALSE]]
    /\ call = IdleCall
    /\ log = << >>
    /\ last = [b \in AllBooks |-> NoCall]

NextWeb ==
    \/ ScheduledSync \/ Ingest \/ SyncStart \/ SyncNextBook
    \/ SyncAfterCall \/ SyncReturn \/ SyncFinish
    \/ GetBookPages \/ GetUserBookInfo
    \/ CreateUserBook \/ GetNewUserBook \/ CreateUserBookRead
    \/ UpdateUBR \/ UpdateUB

SpecWeb == InitWeb /\ [][NextWeb]_vars

SpecIngest == InitIngest /\ [][NextIngest]_vars

Next ==
    \/ DirectCall \/ DirectReturn
    \/ GetEditionPages \/ GetBookPages \/ GetUserBookInfo
    \/ CreateUserBook \/ GetNewUserBook \/ CreateUserBookRead
    \/ UpdateUBR \/ UpdateUB
    \/ Ingest \/ SyncStart \/ SyncNextBook \/ SyncAfterCall
    \/ SyncReturn \/ SyncFinish

Spec == Init /\ [][Next]_vars

\* ================================================================ claims
IsMutation(e) == e.op \in Mutations
\* the mutation requests issued so far by the current call, in order
MutationsIssued == SelectSeq(log, IsMutation)
OpCount(op) == Cardinality({ i \in 1..Len(log) : log[i].op = op })

\* the current update_progress call has returned
Done == call.pc = "done"
\* ... and it had read the snapshot (GetUserBookInfo was answered)
DoneWithSnapshot == Done /\ call.target_page # None
\* the previous call for the same book returned True with the same arguments
RepeatOfSuccess ==
    /\ Done /\ call.ret # "raised"
    /\ last[call.args.book].ret = "true"
    /\ last[call.args.book].args = call.args

\* C1 (as claimed): a not-forced reconcile that repeats a successful one with
\* the same local state, and meets no remote error, issues no mutation and
\* returns success - whatever the local and the initial remote state.
C1_Idempotent ==
    (RepeatOfSuccess /\ ~call.args.force /\ ~call.err)
        => (MutationsIssued = << >> /\ call.ret = "true")

\* C2: not forced, user-book and latest read exist, status, edition and
\* dates match: the call issues no mutation and returns success when the
\* pages are within 1 and the seconds within 59 of the remote values, and
\* issues UpdateUBR otherwise.
C2_Pre ==
    /\ DoneWithSnapshot /\ ~call.args.force
    /\ call.user_book # None /\ call.ubr_list # None
    /\ call.current_status = StatusIdFor(call.args.status)
    /\ (call.args.edition_id = None
        \/ call.current_edition = call.args.edition_id)
    /\ call.current_start =
         (IF call.args.start_date = None THEN None
          ELSE strftime(call.args.start_date))
    /\ (call.args.status = "finished" =>
          call.current_finish = strftime(call.args.last_read_date))

C2_Within ==
    /\ call.current_page # None
    /\ Abs(call.current_page - call.target_page) <= 1
    /\ call.current_seconds # None
    /\ Abs(call.current_seconds - call.args.seconds) <= 59

C2_DriftTolerance ==
    C2_Pre =>
        IF C2_Within
        THEN MutationsIssued = << >> /\ call.ret = "true"
        ELSE OpCount("UpdateUBR") >= 1

\* the skipping side at its edge: one page and 59 seconds apart
C2_Witness_Skip ==
    /\ C2_Pre /\ C2_Within /\ call.ret = "true"
    /\ Abs(call.current_page - call.target_page) = 1
    /\ Abs(call.current_seconds - call.args.seconds) = 59

\* the writing side at its edge: two pages apart, seconds within tolerance
C2_Witness ==
    /\ C2_Pre /\ ~C2_Within /\ OpCount("UpdateUBR") = 1
    /\ Abs(call.current_page - call.target_page) = 2
    /\ Abs(call.current_seconds - call.args.seconds) <= 59

\* C3: no remote user-book and no remote error: one CreateUserBook, one
\* CreateUserBookRead exactly if the re-check found no read, one UpdateUBR,
\* no UpdateUB, and the call returns True.
C3_Pre == DoneWithSnapshot /\ call.user_book = None /\ ~call.err

C3_CreationCascade ==
    C3_Pre =>
        /\ OpCount("CreateUserBook") = 1
        /\ OpCount("CreateUserBookRead") =
              (IF call.new_ub_reads = None THEN 1 ELSE 0)
        /\ OpCount("UpdateUBR") = 1
        /\ OpCount("UpdateUB") = 0
        /\ call.ret = "true"

C3_Witness ==
    /\ C3_Pre /\ call.new_ub_reads # None
    /\ OpCount("CreateUserBookRead") = 0 /\ OpCount("UpdateUBR") = 1

\* C4: whatever fails in whichever call, a book never has more than one
\* user-book and a user-book never more than one read record.
C4_NoDuplicates ==
    \A b \in DOMAIN remote :
        /\ Len(remote[b].ubs) <= 1
        /\ \A i \in 1..Len(remote[b].ubs) : Len(remote[b].ubs[i].reads) <= 1

\* a call that follows a failed one finds the user-book the failed call
\* left behind and completes it with its read record
C4_Witness ==
    /\ run.caller = "engine" /\ Done /\ call.ret = "true"
    /\ last[call.args.book].ret = "false"
    /\ OpCount("CreateUserBook") = 0 /\ OpCount("CreateUserBookRead") = 1
    /\ Len(remote[call.args.book].ubs) = 1
    /\ Len(remote[call.args.book].ubs[1].reads) = 1

\* C5: once a request of the call has failed, the call is over: it has
\* returned False (not raised) and the failed request is the last one issued.
C5_FirstErrorAbandons ==
    [][ call.err =>
          /\ call.pc = "done" /\ call.ret = "false"
          /\ (log' = log \/ log' = << >>) ]_vars

C5_Witness ==
    /\ call.err /\ Done /\ call.ret = "false"
    /\ Len(log) >= 1 /\ log[Len(log)].op = "CreateUserBook"

\* C6 (as claimed): remote status finished (3), local status reading, not
\* forced: no mutation is issued and the call returns True, also when the
\* user-book has no read record.
C6_FinishedNotDowngraded ==
    ( /\ DoneWithSnapshot /\ ~call.args.force
      /\ call.args.status = "reading"
      /\ call.user_book # None
      /\ call.current_status = StatusFinished )
        => (MutationsIssued = << >> /\ (~call.err => call.ret = "true"))

\* C7: within a sync run a book's sync_status becomes 'synced' only in the
\* step that handles update_progress returning True for that book.
C7_SyncedOnlyOnSuccess ==
    [][ \A b \in DOMAIN books' :
          ( /\ books'[b].sync_status = "synced"
            /\ (b \notin DOMAIN books \/ books[b].sync_status # "synced") )
          => (run.pc = "calling" /\ run.cur = b /\ Done /\ call.ret = "true")
      ]_vars

\* a book has been marked after its reconcile returned True
C7_Witness ==
    \E b \in DOMAIN books :
        /\ books[b].sync_status = "synced" /\ last[b].ret = "true"
        /\ run.caller = "cli"

\* a sync_progress run has returned and left a failed book unmarked
C7_Witness_Engine ==
    \E b \in DOMAIN books :
        /\ books[b].sync_status = "pending" /\ last[b].ret = "false"
        /\ run.caller = "engine" /\ run.pc = "returned"

\* C8 (as claimed): a sync_progress run that selected books returns one
\* entry per selected book, in selection order, whatever failed on the way.
C8_BatchIsolation ==
    (run.caller = "engine" /\ run.pc = "returned" /\ run.outcome # "no_token")
        => /\ Len(run.results) = Len(run.selected)
           /\ \A i \in 1..Len(run.results) : run.results[i][1] = run.selected[i]

\* C9 (as claimed): a book marked 'synced' had its latest reconcile attempt
\* succeed.
C9_NoStaleMarker ==
    \A b \in DOMAIN books :
        books[b].sync_status = "synced" => last[b].ret = "true"

\* C10: the mutations of a call are issued in the order CreateUserBook,
\* CreateUserBookRead, UpdateUBR, UpdateUB, each at most once; the read is
\* created for a known user-book id, the update sent to a known read id.
Rank(op) ==
    CASE op = "CreateUserBook" -> 1
      [] op = "CreateUserBookRead" -> 2
      [] op = "UpdateUBR" -> 3
      [] op = "UpdateUB" -> 4

C10_MutationOrder ==
    LET m == MutationsIssued
    IN /\ \A i, j \in 1..Len(m) : i < j => Rank(m[i].op) < Rank(m[j].op)
       /\ \A i \in 1..Len(m) :
            /\ m[i].op = "CreateUserBookRead" =>
                 /\ m[i].variables.ub_id # None
                 /\ m[i].variables.ub_id \in
                       1..Len(remote[call.args.book].ubs)
            /\ m[i].op = "UpdateUBR" =>
                 /\ m[i].variables.ubr_id # None
                 /\ \E k \in 1..Len(remote[call.args.book].ubs) :
                      m[i].variables.ubr_id \in
                          1..Len(remote[call.args.book].ubs[k].reads)

C10_Witness ==
    /\ Done /\ call.ret = "true" /\ Len(MutationsIssued) = 3
    /\ MutationsIssued[1].op = "CreateUserBookRead"
    /\ MutationsIssued[3].op = "UpdateUB"

\* the current call returned True with the snapshot query as its last
\* request: it skipped
Skipped ==
    /\ Done /\ call.ret = "true"
    /\ Len(log) > 0 /\ log[Len(log)].op = "GetUserBookInfo"

\* the snapshot shows a user-book and a read record that agree with the
\* local state in status, edition, dates, pages and seconds
NothingDrifted ==
    /\ call.user_book # None /\ call.ubr_list # None
    /\ call.current_status = StatusIdFor(call.args.status)
    /\ (call.args.edition_id = None
        \/ call.current_edition = call.args.edition_id)
    /\ call.current_start =
         (IF call.args.start_date = None THEN None
          ELSE strftime(call.args.start_date))
    /\ (call.args.status = "finished" =>
          call.current_finish = strftime(call.args.last_read_date))
    /\ C2_Within

\* C11: a call that read the snapshot, did not skip and met no remote error
\* has issued exactly one UpdateUBR; a forced call never skips.
C11_ProgressAlwaysWritten ==
    (DoneWithSnapshot /\ ~call.err) =>
        /\ (~Skipped => OpCount("UpdateUBR") = 1)
        /\ (call.args.force => ~Skipped)

\* a forced call wrote although nothing had drifted
C11_Witness ==
    /\ DoneWithSnapshot /\ ~call.err /\ call.args.force
    /\ NothingDrifted
    /\ OpCount("UpdateUBR") = 1

\* the page total the remote holds for the call's book: the edition's count
\* when the call names an edition and that count is there, else the book's
ResolvedTotal ==
    LET r == remote[call.args.book]
    IN IF call.args.edition_id # None /\ r.edition_pages # None
       THEN r.edition_pages ELSE r.book_pages

HasTotal == ResolvedTotal # None /\ ResolvedTotal > 0

\* C12: the UpdateUBR request of a call is the only one, and its variables
\* are: pages = the target page if a page total was resolved, else the page
\* of the snapshot; seconds = the local seconds; started_at = the day of the
\* local start date if there is one, else the started_at of the snapshot;
\* finished_at = the day of last_read_date when the local status is finished.
C12_UpdatePayload ==
    \A i \in 1..Len(log) : log[i].op = "UpdateUBR" =>
        LET v == log[i].variables
            a == call.args
        IN /\ OpCount("UpdateUBR") = 1
           /\ v.pages = IF HasTotal THEN call.target_page
                        ELSE call.current_page
           /\ v.seconds = a.seconds
           /\ v.started_at = IF a.start_date # None
                             THEN strftime(a.start_date)
                             ELSE call.current_start
           /\ (a.status = "finished" =>
                 v.finished_at = strftime(a.last_read_date))

\* no page total, no local start date: the page and the started_at of the
\* snapshot are sent back
C12_Witness ==
    /\ Done /\ ~call.err /\ OpCount("UpdateUBR") = 1
    /\ ~HasTotal /\ call.current_page # None
    /\ call.args.start_date = None /\ call.current_start # None
    /\ call.args.status = "finished"

\* C13 (as claimed): a call with local status reading leaves the finished_at
\* of the remote read record as the snapshot showed it.
C13_ReadingKeepsFinish ==
    (DoneWithSnapshot /\ call.args.status = "reading"
        /\ call.ubr_list # None) =>
        remote[call.args.book].ubs[call.user_book].reads[call.ubr_list]
            .finished_at = call.current_finish

\* C14: a call that read the snapshot and met no remote error has issued
\* UpdateUB once if it did not skip, the snapshot showed a user-book, and the
\* status or the edition of the snapshot differs from the target status id or
\* the local edition id; otherwise it issued none.  A call that found no
\* user-book never issues UpdateUB, error or not.
C14_UpdateUserBookCondition ==
    /\ (DoneWithSnapshot /\ ~call.err) =>
         OpCount("UpdateUB") =
            IF /\ ~Skipped
               /\ call.user_book # None
               /\ \/ call.current_status #
                       (IF call.args.status = "reading" THEN 2 ELSE 3)
                  \/ call.current_edition # call.args.edition_id
            THEN 1 ELSE 0
    /\ (DoneWithSnapshot /\ call.user_book = None) => OpCount("UpdateUB") = 0

\* UpdateUB for a change of edition alone
C14_Witness ==
    /\ DoneWithSnapshot /\ ~call.err /\ OpCount("UpdateUB") = 1
    /\ call.current_status = StatusIdFor(call.args.status)
    /\ call.current_edition # call.args.edition_id

\* C15 (as claimed): a call that skipped has issued exactly one request.
C15_OneRequestWhenSkipped == Skipped => Len(log) = 1

\* C15 (amended): a call that returned True asked for the edition's page
\* count once if it names an edition, for the book's page count once if it
\* names no edition or the edition has no count, and for the user-book with
\* its latest read once, before any mutation; a call that skipped issued
\* these two or three requests and nothing else, and its snapshot is the
\* remote state of that moment.
C15_ReadsPerReconcile ==
    (Done /\ call.ret = "true") =>
        LET r == remote[call.args.book]
            withEdition == call.args.edition_id # None
        IN /\ OpCount("GetUserBookInfo") = 1
           /\ OpCount("GetEditionPages") = IF withEdition THEN 1 ELSE 0
           /\ OpCount("GetBookPages") =
                IF withEdition /\ r.edition_pages # None THEN 0 ELSE 1
           /\ \A i \in 1..Len(log) : IsMutation(log[i]) =>
                \E j \in 1..(i - 1) : log[j].op = "GetUserBookInfo"
           /\ Skipped =>
                /\ Len(log) \in {2, 3} /\ MutationsIssued = << >>
                /\ call.current_status = r.ubs[1].status_id
                /\ call.current_edition = r.ubs[1].edition_id
                /\ call.current_page =
                     r.ubs[1].reads[call.ubr_list].progress_pages
                /\ call.current_seconds =
                     r.ubs[1].reads[call.ubr_list].progress_seconds

\* a second call with the same arguments skips after three read requests
C15_Witness ==
    /\ Skipped /\ Len(log) = 3 /\ RepeatOfSuccess

C18_NullSecondsAsZero ==
    (/\ DoneWithSnapshot /\ ~call.args.force
     /\ call.user_book # None /\ call.ubr_list # None
     /\ call.current_status = StatusIdFor(call.args.status)
     /\ (call.args.edition_id = None
         \/ call.current_edition = call.args.edition_id)
     /\ call.current_start =
          (IF call.args.start_date = None THEN None
           ELSE strftime(call.args.start_date))
     /\ (call.args.status = "finished" =>
           call.current_finish = strftime(call.args.last_read_date))
     /\ call.current_page # None
     /\ Abs(call.current_page - call.target_page) <= 1
     /\ call.current_seconds = None /\ call.args.seconds < 60)
        => Skipped

\* C19: a call skips only if the started_at of the snapshot is the day of
\* the local start date, or both are absent, and, when the local status is
\* finished, the finished_at of the snapshot is the day of last_read_date;
\* a not-forced call with local status reading skips whatever the
\* finished_at of the snapshot, when nothing else drifted.
C19_DateRules ==
    /\ Skipped =>
         /\ (call.args.start_date = None => call.current_start = None)
         /\ (call.args.start_date # None =>
               /\ call.current_start # None
               /\ call.current_start = call.args.start_date \div TicksPerDay)
         /\ (call.args.status = "finished" =>
               call.current_finish =
                   call.args.last_read_date \div TicksPerDay)
    /\ (DoneWithSnapshot /\ ~call.args.force
          /\ call.args.status = "reading" /\ NothingDrifted) => Skipped

\* a skip with local status reading although the remote read is finished
C19_Witness ==
    /\ Skipped /\ call.args.status = "reading" /\ call.current_finish # None

\* a skip with a start date on both sides
C19_Witness_Start ==
    /\ Skipped /\ call.args.start_date # None

\* C20: the target page t of a call is the integer part of
\* total * percentage / 100, where total is the edition's page count when
\* the call names an edition and the count is there, else the book's page
\* count; without a positive total it is 0.
C20_TargetPage ==
    DoneWithSnapshot =>
        LET t == call.target_page
            num == call.args.percentage.num
            den == call.args.percentage.den
        IN IF HasTotal
           THEN /\ t * den * 100 <= ResolvedTotal * num
                /\ ResolvedTotal * num < (t + 1) * den * 100
           ELSE t = 0

\* the edition's count is used and the fraction cut off is above one half
C20_Witness ==
    /\ DoneWithSnapshot /\ HasTotal
    /\ call.args.edition_id # None
    /\ ResolvedTotal = remote[call.args.book].edition_pages
    /\ ResolvedTotal # remote[call.args.book].book_pages
    /\ 2 * ((ResolvedTotal * call.args.percentage.num)
              % (call.args.percentage.den * 100))
         > call.args.percentage.den * 100

\* the loop of a sync run is about to handle book b (for the CLI: a book
\* that has a mapping)
Handling(b) ==
    /\ run.pc = "loop" /\ run.queue # << >> /\ Head(run.queue) = b
    /\ (run.caller = "cli" => books[b].mapped)

\* C21 (as claimed): for every stored book the loop handles, the caller goes
\* on to update_progress with percentage read_pg / total_pg * 100, and with
\* percentage 0 when total_pg is 0, negative or missing; it never leaves the
\* loop at the percentage.
C21_PercentageNeverRaises ==
    [][ \A b \in DOMAIN books :
          Handling(b) =>
            /\ run'.pc = "calling"
            /\ LET p == call'.args.percentage
                   row == books[b]
               IN IF row.total_pg = None \/ row.total_pg <= 0
                  THEN p.num = 0
                  ELSE p.num * row.total_pg = row.read_pg * 100 * p.den
      ]_vars

\* C23 (as claimed): for a mapped book with reading sessions, sync_progress
\* passes the percentage of the furthest page (max_page / total_pg * 100),
\* status finished when that is at least 98, and the time of the last
\* session as last_read_date.
C23_FurthestPosition ==
    [][ \A b \in DOMAIN books :
          ( /\ run.caller = "engine" /\ Handling(b) /\ run'.pc = "calling"
            /\ books[b].total_pg > 0 /\ books[b].max_page # None ) =>
            LET a == call'.args
                row == books[b]
            IN /\ a.percentage.num * row.total_pg
                    = row.max_page * 100 * a.percentage.den
               /\ (row.max_page * 100 >= 98 * row.total_pg
                     => a.status = "finished")
               /\ a.last_read_date = IF row.last_session # None
                                     THEN row.last_session ELSE row.last_open
      ]_vars

\* C24: sync_progress never ends in an exception; when it returns before the
\* selection (no token, or the connection could not be obtained) the result
\* is empty, no request was issued and no table, marker or remote state has
\* changed.
C24_SyncProgressNeverRaises ==
    [][ run.caller = "engine" =>
          /\ run'.outcome # "raised"
          /\ (run.pc = "idle" /\ run'.pc = "returned") =>
                /\ run'.outcome \in {"no_token", "error"}
                /\ run'.results = << >>
                /\ books' = books /\ remote' = remote
                /\ log' = log /\ call' = call
      ]_vars

\* sync_progress returned the empty list after the connection failed, with
\* a mapped book waiting
C24_Witness ==
    /\ run.caller = "engine" /\ run.pc = "returned"
    /\ run.outcome = "error" /\ run.selected = << >> /\ run.results = << >>
    /\ \E b \in DOMAIN books : books[b].mapped

\* sync_progress returned the empty list for want of a token
C24_Witness_NoToken ==
    /\ run.caller = "engine" /\ run.pc = "returned"
    /\ run.outcome = "no_token" /\ run.results = << >>
    /\ \E b \in DOMAIN books : books[b].mapped

\* an ingestion has returned True and book b was in its source
Imported(b) ==
    /\ run.caller = "ingest" /\ run.ingests > 0 /\ run.ingest.ret
    /\ b \in DOMAIN run.ingest.src /\ b \in DOMAIN books

\* C22 (as claimed): an imported book is finished exactly when its read
\* fraction is at least 0.98 or at most 15 pages remain unread, also when
\* its page total is 0 (no fraction, 0 - read pages remain).
C22_Classification ==
    \A b \in DOMAIN books :
        (Imported(b) /\ books[b].total_pg # None /\ books[b].read_pg # None) =>
            LET total == books[b].total_pg
                read == books[b].read_pg
            IN (books[b].status = "finished") <=>
                  \/ (total > 0 /\ read * 100 >= 98 * total)
                  \/ total - read <= 15

\* C22 (amended): an imported book, inserted or updated, is finished exactly
\* when its page total is positive and its read fraction is at least 0.98 or
\* at most 15 pages remain unread; with a page total of 0, or without a page
\* total or a count of read pages, it is reading.
C22_ClassificationGuarded ==
    \A b \in DOMAIN books :
        Imported(b) =>
            LET total == books[b].total_pg
                read == books[b].read_pg
            IN /\ books[b].status \in {"finished", "reading"}
               /\ (books[b].status = "finished") <=>
                     /\ total # None /\ read # None /\ total > 0
                     /\ (read * 100 >= 98 * total \/ total - read <= 15)

\* a stored book (it has the start date of the stored rows) was updated to a
\* page total of 0 and is reading
C22_Witness ==
    /\ Imported(1)
    /\ books[1].start_date = 2 * TicksPerDay
    /\ books[1].total_pg = 0 /\ books[1].status = "reading"

C26_BatchNeverFails ==
    run.caller = "web" =>
        /\ run.outcome # "raised"
        /\ (run.pc = "off" /\ run.n > 0) =>
              (run.web.last_result = "Success" /\ run.web.state = "idle")
        /\ run.pc # "off" => run.web.state = "running"

\* a run has finished whose ingestion returned False and in which a book
\* failed
C26_Witness ==
    /\ run.caller = "web" /\ run.pc = "off" /\ run.n > 0
    /\ run.web.last_result = "Success"
    /\ run.ingests > 0 /\ ~run.ingest.ret
    /\ \E b \in DOMAIN books : last[b].ret = "false"

\* C27: map_book called without force for a book that has a stored mapping
\* returns the stored (hardcover_id, edition_id) pair in the same step: no
\* search or edition request, no prompt, tables unchanged.
C27_MappingResolvedOnce ==
    [][ ( /\ run.caller = "map" /\ run.map.pc = "idle"
          /\ run'.map.pc # "idle"
          /\ ~run'.map.force /\ books[run'.map.local_id].mapped ) =>
            LET row == books[run'.map.local_id]
                ret == run'.map.ret
            IN /\ run'.map.pc = "returned"
               /\ ret.kind = "pair"
               /\ ret.hardcover_id = row.hardcover_id
               /\ ret.edition_id = row.edition_id
               /\ log' = << >> /\ run'.map.prompts = 0
               /\ books' = books
      ]_vars

\* a stored pair with an edition came back without a request or a prompt
C27_Witness ==
    /\ run.caller = "map" /\ run.map.pc = "returned" /\ ~run.map.force
    /\ run.map.ret.kind = "pair"
    /\ run.map.ret.hardcover_id = 1002 /\ run.map.ret.edition_id = 7
    /\ log = << >> /\ run.map.prompts = 0

\* the listing call has returned
Listed == run.caller = "list" /\ run.list.pc = "done"

\* number of matching books whose last_open satisfies P
NumMatching(P(_)) ==
    Cardinality({b \in Matching(books, run.list.query) : P(books[b].last_open)})

\* C28: get_local_books returns the number of matching books whatever limit
\* and offset are, and at most limit rows: the rows at positions offset+1..
\* of the matching books in descending last_open order (NULLs last), each
\* with is_mapped = 1 exactly when the book has a book_mappings row.
C28_LocalBooksPage ==
    Listed =>
      LET l == run.list
          rows == l.rows
          total == Cardinality(Matching(books, l.query))
          rest == IF total > l.offset THEN total - l.offset ELSE 0
      IN /\ l.total = total
         /\ Len(rows) = (IF rest < l.limit THEN rest ELSE l.limit)
         /\ \A i \in DOMAIN rows :
              /\ rows[i].id \in Matching(books, l.query)
              /\ \A j \in DOMAIN rows : i # j => rows[i].id # rows[j].id
              /\ rows[i].last_open = books[rows[i].id].last_open
              /\ rows[i].is_mapped = 1 <=> books[rows[i].id].mapped
              /\ rows[i].is_mapped \in {0, 1}
              \* position offset+i of the descending order: fewer than
              \* offset+i books are strictly newer, at least offset+i are
              \* as new or newer
              /\ LET lo == rows[i].last_open
                     Newer(x) == x # None /\ (lo = None \/ x > lo)
                     AsNew(x) == MayPrecede(x, lo)
                 IN /\ NumMatching(Newer) < l.offset + i
                    /\ NumMatching(AsNew) >= l.offset + i

\* a filtered, paged listing: the query leaves a book out, the page starts
\* past the first match and is cut by the limit, and its row is mapped
C28_Witness ==
    /\ Listed
    /\ run.list.query = <<"a", "B">>
    /\ Cardinality(DOMAIN books) = 3 /\ run.list.total = 2
    /\ run.list.offset = 1 /\ run.list.limit = 1 /\ Len(run.list.rows) = 1
    /\ run.list.rows[1].is_mapped = 1

\* the remote state of the book after one update_progress(args) from remote
\* state r in which every request is answered: the steps of the call
\* composed in their order
Reconciled(args, r) ==
    LET c0 == EnterUpdateProgress(args)
        tp == IF c0.pc = "GetEditionPages" /\ Truthy(r.edition_pages)
              THEN r.edition_pages ELSE r.book_pages
        c1 == AfterSnapshot(Snapshot([c0 EXCEPT !.total_pages = tp], r))
        r2 == CASE c1.pc = "CreateUserBook" ->
                     RemoteCreateRead(
                        RemoteCreateUserBook(r, c1.status_id, c1.e_id, FALSE), 1)
                [] c1.pc = "CreateUserBookRead" -> RemoteCreateRead(r, c1.ub_id)
                [] OTHER -> r
        c2 == CASE c1.pc = "CreateUserBook" ->
                     AfterNewUserBook([c1 EXCEPT !.ub_id = 1], 1)
                [] c1.pc = "CreateUserBookRead" ->
                     [c1 EXCEPT !.ubr_id = Len(r2.ubs[c1.ub_id].reads)]
                [] OTHER -> c1
        r3 == RemoteUpdateRead(r2, c2.ub_id, c2.ubr_id, UpdateUBRPayload(c2))
    IN IF c1.pc = "done" THEN r
       ELSE IF NeedsUpdateUB(c2)
            THEN RemoteUpdateUserBook(r3, c2.ub_id, c2.status_id, c2.e_id)
            ELSE r3

\* a call of the retrying caller has just succeeded
Recovered ==
    /\ run.caller = "retry" /\ run.pc = "calling"
    /\ call.pc = "done" /\ call.ret = "true"

\* C29: once a reconcile succeeds, after any number of reconciles that failed
\* at some request with any prefix of their mutations applied, the remote
\* user-books and read records of the book are those one reconcile without
\* failure would have produced from the original remote state.
C29_RecoveryByRerun ==
    Recovered => remote[run.args.book] = Reconciled(run.args, run.orig)

RECURSIVE NumReads(_)
\* read records over all user-books of a remote book
NumReads(ubs) ==
    IF ubs = << >> THEN 0
    ELSE Len(ubs[1].reads) + NumReads(Tail(ubs))

\* C30: when two runs reconcile the same book that is not yet on the remote
\* shelf, the book ends up with at most one user-book and at most one read
\* record.
C30_NoDuplicates ==
    run.caller = "overlap" =>
        /\ Len(remote[run.args.book].ubs) <= 1
        /\ NumReads(remote[run.args.book].ubs) <= 1

\* a user-book that takes part in the overlap scenario never needs UpdateUB
OverlapNeverUpdatesUB ==
    run.caller = "overlap" => call.pc # "UpdateUB"

\* C31: sync_status["state"] is "running" whenever an execution of
\* scheduled_sync is between its first statement and its finally block, and
\* "idle" only when none is.
C31_FlagAccurate ==
    run.caller = "flag" =>
        ( (\E e \in Execs : run.flag.pc[e] \in {"try", "sync", "except", "finally"})
            => run.flag.status.state = "running" )

\* C32: every execution of scheduled_sync sets state to "running" when it
\* starts, leaves only through the finally block, which sets state to "idle"
\* and then last_run, and does leave: whatever the ingestion and the sync do
\* (return or raise), the execution ends and the state gets back to "idle".
C32_ReturnsToIdle ==
    /\ [][ run.caller = "flag" =>
            \A e \in Execs :
              LET pc == run.flag.pc[e]
                  pcn == run'.flag.pc[e]
              IN /\ (pc = "off" /\ pcn # "off") =>
                        run'.flag.status.state = "running"
                 /\ (pc # "last_run" /\ pcn = "last_run") =>
                        run'.flag.status.state = "idle"
                 /\ (pc # "off" /\ pcn = "off") =>
                        /\ pc = "last_run"
                        /\ run'.flag.status.last_run # None
                        /\ run'.flag.status.last_run # run.flag.status.last_run
         ]_vars
    /\ \A e \in Execs : (run.flag.pc[e] # "off") ~> (run.flag.pc[e] = "off")
    /\ (run.flag.status.state = "running") ~> (run.flag.status.state = "idle")

\* an execution whose sync raised has ended: the flag is idle, last_run is set
C32_Witness ==
    /\ run.caller = "flag"
    /\ \A e \in Execs : run.flag.pc[e] = "off"
    /\ run.flag.runs["job"] = 1 /\ run.flag.runs["task"] = 0
    /\ run.flag.status = [state |-> "idle", last_run |-> 1, last_result |-> "Error"]

\* C33: a reconcile whose local mapping has no edition id (e_id None) never
\* changes the edition_id of a user-book that exists on the remote side; its
\* UpdateUB in particular does not put null over a remote edition.
C33_EditionNotClobbered ==
    [][ ( /\ call.pc = "UpdateUB" /\ call.e_id = None
          /\ call.user_book # None ) =>
            remote'[call.args.book].ubs[call.ub_id].edition_id
              = remote[call.args.book].ubs[call.ub_id].edition_id
      ]_vars

\* C34: an import (import_books, then import_sessions) leaves book_mappings
\* as it was, keeps every stored book with its sync_status, whatever the
\* imported progress is, and gives every book it inserts sync_status
\* "pending".
C34_ImportKeepsBookkeeping ==
    [][ run.caller = "import" =>
          /\ books'.book_mappings = books.book_mappings
          /\ \A id \in DOMAIN books.books :
               /\ id \in DOMAIN books'.books
               /\ books'.books[id].sync_status = books.books[id].sync_status
          /\ \A id \in DOMAIN books'.books \ DOMAIN books.books :
               books'.books[id].sync_status = "pending"
      ]_vars

\* the synced, mapped book was imported with other progress (99 pages read,
\* finished) and kept its marker; a new book came in as pending
C34_Witness ==
    /\ run.caller = "import" /\ run.imp.n = 1 /\ ~run.imp.raised
    /\ DOMAIN books.books = {"a", "b"}
    /\ books.books["a"].read_pg = 99 /\ books.books["a"].status = "finished"
    /\ books.books["a"].sync_status = "synced"
    /\ books.books["b"].sync_status = "pending"
    /\ DOMAIN books.book_mappings = {"a"}

\* the import before this step was one of the same source and did not raise
SameSourceAgain ==
    /\ run.caller = "import" /\ run.imp.n >= 1 /\ ~run.imp.raised
    /\ run'.imp.n = run.imp.n + 1
    /\ run'.imp.src = run.imp.src

\* C35: importing the same source a second time adds no book and no
\* session and changes no field of a book (updated_at is not modelled).
C35_ReimportIdempotent ==
    [][ SameSourceAgain => books' = books ]_vars

\* C36: reading_sessions never holds two rows with the same book_id and
\* start_time.
C36_SessionsDeduplicated ==
    run.caller = "import" =>
        \A r, q \in DOMAIN books.reading_sessions :
            /\ books.reading_sessions[r] = 1
            /\ (r.book_id = q.book_id /\ r.start_time = q.start_time) => r = q

\* C37: in map_book called with force for a book that has a mapping, the
\* answer "s" (two prompts: the choice and the new title) is followed by a
\* search with the new title; the stored mapping is not returned in its
\* place.
C37_ForcedRemapSearches ==
    [][ ( /\ run.caller = "map" /\ run.map.pc = "choose"
          /\ run.map.force /\ books[run.map.local_id].mapped
          /\ run'.map.prompts = run.map.prompts + 2 ) =>
            /\ run'.map.pc = "search_shelf"
            /\ run'.map.ret.kind # "pair"
      ]_vars

\* the rows of book_mappings for one local book
MappingRowsOf(id) == { r \in books.book_mappings : r.local_book_id = id }

\* C38: after any sequence of saves book_mappings holds one row for each
\* local id that was saved and none for the others, get_book_mapping gives
\* the pair of the latest save of the id (None for an id never saved), and
\* a save for one id leaves the rows of the other ids as they were.
C38_MappingUpsert ==
    /\ [][ run.caller = "save" =>
            \A id \in {"a", "b"} :
              run'.save.latest[id] = run.save.latest[id]
                 => { r \in books'.book_mappings : r.local_book_id = id }
                      = MappingRowsOf(id)
         ]_vars
    /\ [](run.caller = "save" =>
            /\ \A id \in {"a", "b"} :
                 /\ Cardinality(MappingRowsOf(id))
                      = (IF run.save.latest[id] = MapNone THEN 0 ELSE 1)
                 /\ GetBookMapping(books.book_mappings, id)
                      = {run.save.latest[id]}
            /\ \A r \in books.book_mappings : r.local_book_id \in {"a", "b"})

\* book "a" was saved twice with different pairs, book "b" once, and the
\* question for "a" got the second pair
C38_Witness ==
    /\ run.caller = "save" /\ run.save.n = 3
    /\ run.save.latest["a"] = MapPair(1002, None)
    /\ run.save.latest["b"] = MapPair(1001, 7)
    /\ run.save.asked = "a" /\ run.save.got = MapPair(1002, None)
    /\ Cardinality(books.book_mappings) = 2

\* an ingestion over WebDAV got as far as creating its temporary file
TempFileCreated ==
    /\ run.caller = "ingest" /\ run.ingests >= 1
    /\ run.ingest.via = "webdav" /\ run.ingest.fail # "unavailable"

\* C39: ingest_from_webdav calls os.remove for its temporary file on every
\* way out after the file was created (success, failed download, failed
\* import), and whether the removal raises or not the call returns what it
\* would have returned: True exactly when every step succeeded.
C39_TempFileCleanup ==
    TempFileCreated =>
        /\ run.ingest.remove_tried
        /\ run.ingest.ret = (run.ingest.fail = "none")

\* the removal raised after a successful import and the call returned True
C39_Witness ==
    /\ TempFileCreated /\ run.ingest.fail = "none"
    /\ run.ingest.remove_raised /\ run.ingest.ret

\* the download failed and the removal was still attempted
C39_Witness_Fetch ==
    /\ TempFileCreated /\ run.ingest.fail = "fetch"
    /\ run.ingest.remove_tried /\ ~run.ingest.ret

====
